---- MODULE Spec2Model ----
(***************************************************************************)
(* AgriConnect web client: the page-level state machines of the Home,      *)
(* Products, product detail, login and sign-up pages, with the backend     *)
(* table, its change feed and the auth service as the environment.         *)
(***************************************************************************)
EXTENDS Integers, Sequences, FiniteSets, TLC

VARIABLES
    page,          \* which page this browser tab shows
    db,            \* backend table farm_produce: id -> template index, 0 = no row
    commits,       \* number of backend commits so far
    feed,          \* change-feed events committed and not yet delivered
    ordered,       \* TRUE: the feed delivers in commit order
    idless,        \* TRUE once an event without a row id was put on the feed
    h_products,    \* HomePage: products
    h_loading,     \* HomePage: loading
    h_err,         \* HomePage: err
    h_alive,       \* HomePage: the fetch effect's alive flag / channel subscribed
    h_load,        \* HomePage: position of load(): "await", "data", "error", "done"
    h_snap,        \* HomePage: rows the backend returned to load()
    h_ev,          \* HomePage: the event the realtime handler applied last
    h_prev,        \* HomePage: products before that event was applied
    h_last,        \* HomePage: id -> the event applied last for the id since the fetch
    h_newest,      \* HomePage: id -> the highest commit number applied for the id
    h_query,       \* HomePage: query
    h_quality,     \* HomePage: quality ('all' or a Quality)
    h_maxPrice,    \* HomePage: maxPrice ('' or a number)
    h_sort,        \* HomePage: sort
    p_products,    \* ProductsPage: products
    p_loading,     \* ProductsPage: loading
    p_active,      \* ProductsPage: the fetch effect's active flag
    p_fetch,       \* ProductsPage: fetchProducts() at "await", "data", "error", "done", "failed"
    p_snap,        \* ProductsPage: rows the backend returned to fetchProducts()
    p_search,      \* ProductsPage: search
    p_selectedCategory, \* ProductsPage: selectedCategory
    p_sortBy,      \* ProductsPage: sortBy
    d_id,          \* ProductDetailPage: id, the route parameter
    d_product,     \* ProductDetailPage: product, <<>> for null
    d_loading,     \* ProductDetailPage: loading
    d_error,       \* ProductDetailPage: error
    d_fetches,     \* ProductDetailPage: the fetchProduct() calls in flight
    d_navs,        \* ProductDetailPage: number of route changes so far
    d_errorFor,    \* ProductDetailPage: the route id whose fetch or event set the error
    l_email,       \* LoginPage: email
    l_password,    \* LoginPage: password
    l_errors,      \* LoginPage: errors {email, password, submit}
    l_isLoading,   \* LoginPage: isLoading
    l_pc,          \* LoginPage: position of onSubmit()
    l_calls,       \* LoginPage: the calls onSubmit() has made, in order
    l_raw,         \* LoginPage: error.message of the sign-in call, <<>> if none
    l_signIn,      \* LoginPage: how the credential call ended
    l_session,     \* LoginPage: what the session re-read returned
    l_redirect,    \* LoginPage: the route onSubmit() sent the router to, "" if none
    l_role,        \* LoginPage: the role the lookup gave, <<>> before it
    s_formData,    \* SignUpPage: formData
    s_errors,      \* SignUpPage: errors
    s_isLoading,   \* SignUpPage: isLoading
    s_successMsg,  \* SignUpPage: successMsg
    s_pc,          \* SignUpPage: position of handleSubmit()
    s_pushed,      \* SignUpPage: the routes given to router.push, in order
    s_result,      \* SignUpPage: how the sign-up call ended
    s_message,     \* SignUpPage: error.message of the sign-up call, Null if it has none
    f_authUserId,  \* ProfilePage: authUserId
    f_user,        \* ProfilePage: user (the accounts_user profile), <<>> for null
    f_form,        \* ProfilePage: the form fields of the Add Product modal
    f_showAddModal, \* ProfilePage: showAddModal
    f_savingProduct, \* ProfilePage: savingProduct
    f_modalError,  \* ProfilePage: modalError
    f_success,     \* ProfilePage: success
    f_pc,          \* ProfilePage: position of saveProduct()
    f_calls,       \* ProfilePage: the storage and table calls made so far, in order
    f_photoUrl,    \* ProfilePage: photoUrl of the save in flight
    f_result,      \* ProfilePage: how the last saveProduct() ended
    f_raised,      \* ProfilePage: the error the last saveProduct() met
    f_formAtSave,  \* ProfilePage: the form fields when saveProduct() was last called
    f_saves,       \* ProfilePage: number of saveProduct() calls so far
    m_authId,      \* MarketplacePage: authId
    m_listings,    \* MarketplacePage: listings
    m_selectedListingId, \* MarketplacePage: selectedListingId
    m_inserts,     \* MarketplacePage: the inserts into demand_offers issued, in order
    m_pending,     \* MarketplacePage: number of those inserts still in flight
    m_clicks,      \* MarketplacePage: number of Send Offer clicks so far
    m_alert,       \* MarketplacePage: the text of the last alert()
    m_pushed,      \* MarketplacePage: the routes given to router.push, in order
    w_phone,       \* contact buttons: farmer_phone of the listing, as stored
    w_opened,      \* contact buttons: the window.open calls made, in order
    k_from,        \* distance: the first coordinate pair given to the distance functions
    k_to,          \* distance: the second coordinate pair
    k_km,          \* distance: what each call returned, Null before the call
    g_rows,        \* DiscoverClient: rows
    g_loading,     \* DiscoverClient: loading
    g_active,      \* DiscoverClient: the fetch effect's active flag / channel subscribed
    g_flights,     \* DiscoverClient: the fetchProducts() calls in flight, by issue number
    g_issued,      \* DiscoverClient: number of fetchProducts() calls so far
    g_lastAnswer,  \* DiscoverClient: what the backend answered to the call issued last
    g_userLoc,     \* DiscoverClient: userLoc, <<>> for null
    g_geoError,    \* DiscoverClient: geoError
    g_radiusKm,    \* DiscoverClient: radiusKm
    g_search,      \* DiscoverClient: search
    n_user,        \* Navbar: user, <<>> for null
    n_loading,     \* Navbar: loading
    n_showDropdown,\* Navbar: showDropdown
    n_run,         \* Navbar: which run of the auth effect is the live one (its alive is true)
    n_checks,      \* Navbar: the effect runs whose getSession() has not resolved
    n_lookups,     \* Navbar: fetchUserProfile() calls in flight
    n_session,     \* auth service: the session's user email, null when signed out
    n_reported,    \* Navbar: the session of the last auth event the listener received
    n_events       \* Navbar: number of auth events received

\* the filter controls of the Home page and of the Products page
hfVars == <<h_query, h_quality, h_maxPrice, h_sort>>
pfVars == <<p_search, p_selectedCategory, p_sortBy>>

homeVars == <<h_products, h_loading, h_err, h_alive, h_load, h_snap, h_ev, h_prev, h_last,
              h_newest, hfVars>>
prodVars == <<p_products, p_loading, p_active, p_fetch, p_snap, pfVars>>
backendVars == <<db, commits, feed, ordered, idless>>

detVars == <<d_id, d_product, d_loading, d_error, d_fetches, d_navs, d_errorFor>>

loginVars == <<l_email, l_password, l_errors, l_isLoading, l_pc, l_calls, l_raw,
               l_signIn, l_session, l_role, l_redirect>>

signVars == <<s_formData, s_errors, s_isLoading, s_successMsg, s_pc, s_pushed, s_result,
              s_message>>

profVars == <<f_authUserId, f_user, f_form, f_showAddModal, f_savingProduct, f_modalError,
              f_success, f_pc, f_calls, f_photoUrl, f_result, f_raised, f_formAtSave,
              f_saves>>

mktVars == <<m_authId, m_listings, m_selectedListingId, m_inserts, m_pending, m_clicks,
             m_alert, m_pushed>>

contactVars == <<w_phone, w_opened>>

\* the state of the parts that have a specification of their own
distVars == <<k_from, k_to, k_km>>
\* the filter controls of the Discover page
gfVars == <<g_userLoc, g_geoError, g_radiusKm, g_search>>
discVars == <<g_rows, g_loading, g_active, g_flights, g_issued, g_lastAnswer, gfVars>>
navVars == <<n_user, n_loading, n_showDropdown, n_run, n_checks, n_lookups, n_session,
            n_reported, n_events>>
extraVars == <<contactVars, distVars, discVars, navVars>>

vars == <<page, backendVars, homeVars, prodVars, detVars, loginVars, signVars, profVars,
          mktVars, extraVars>>

\* the state of the pages other than the one named
notHome == <<prodVars, detVars, loginVars, signVars, profVars, mktVars, extraVars>>
notProducts == <<homeVars, detVars, loginVars, signVars, profVars, mktVars, extraVars>>
notDetail == <<homeVars, prodVars, loginVars, signVars, profVars, mktVars, extraVars>>
notLogin == <<backendVars, homeVars, prodVars, detVars, signVars, profVars, mktVars, extraVars>>
notSignUp == <<backendVars, homeVars, prodVars, detVars, loginVars, profVars, mktVars, extraVars>>
notProfile == <<backendVars, homeVars, prodVars, detVars, loginVars, signVars, mktVars, extraVars>>
notMarket == <<backendVars, homeVars, prodVars, detVars, loginVars, signVars, profVars, extraVars>>
pageVars == <<homeVars, prodVars, detVars, loginVars, signVars, profVars, mktVars>>
notExtra == <<backendVars, pageVars>>

----------------------------------------------------------------------------
(* Bounds of the model *)

MaxCommits == 2
\* route changes of the product detail page
MaxNavs == 2
\* an error text of the auth service is made of at most this many phrases
MaxPhrases == 2
\* saveProduct() is called at most this many times
MaxSaves == 2
\* Send Offer is clicked at most this many times
MaxClicks == 3
\* the filtered lists hold at most this many listings
MaxRows == 3
\* the contact buttons of a listing are pressed at most this many times
MaxOpens == 2
\* the Navbar's auth listener receives at most this many events
MaxAuthEvents == 2
\* the Navbar's auth effect runs at most this many times
MaxEffectRuns == 2

\* DiscoverClient: useState(20) of radiusKm
DefaultRadiusKm == 20

(* Program constants *)

\* password.length < 6
MinPasswordLength == 6
\* /^\+?\d{9,15}$/
PhoneMinDigits == 9
PhoneMaxDigits == 15

\* .limit(300)
FetchLimit == 300

----------------------------------------------------------------------------
(* JavaScript values as they arrive in JSON: tagged tuples *)

Null == <<"null">>
NaN == <<"nan">>
Num(n) == <<"num", n>>
Str(s) == <<"str", s>>
\* a string whose characters the program inspects
Txt(cs) == <<"txt", cs>>
Bool(b) == <<"bool", b>>
Ts(n) == <<"ts", n>>

\* !v
Falsy(v) ==
    CASE v[1] = "null" -> TRUE
      [] v[1] = "nan" -> TRUE
      [] v[1] = "num" -> v[2] = 0
      [] v[1] = "dec" -> v[2] = 0
      [] v[1] = "bool" -> ~v[2]
      [] v[1] = "str" -> v[2] = ""
      [] v[1] = "txt" -> v[2] = <<>>
      [] OTHER -> FALSE

\* Boolean(v)
Boolean(v) == Bool(~Falsy(v))

\* a ?? b
Coalesce(a, b) == IF a = Null THEN b ELSE a

\* Number(v): a non-numeric string gives NaN
Number(v) ==
    CASE v[1] = "num" -> v
      [] v[1] = "dec" -> v
      [] v[1] = "inf" -> v
      [] v[1] = "null" -> Num(0)
      [] v[1] = "bool" -> IF v[2] THEN Num(1) ELSE Num(0)
      [] v[1] = "str" -> IF v[2] = "" THEN Num(0) ELSE NaN
      [] v[1] = "txt" -> IF v[2] = <<>> THEN Num(0) ELSE NaN
      [] OTHER -> NaN

safeNumber(v, fallback) ==
    LET n == Number(v) IN IF n[1] \in {"num", "dec"} THEN n ELSE fallback

\* String(v) of a string is that string; row ids are strings (uuid)
JsString(v) == v

\* a || b
Or(a, b) == IF Falsy(a) THEN b ELSE a

----------------------------------------------------------------------------
(* Text that the program inspects is a sequence of characters *)

UpperCase == <<"A", "B", "C", "D", "E", "F", "G", "H", "I", "J", "K", "L", "M",
               "N", "O", "P", "Q", "R", "S", "T", "U", "V", "W", "X", "Y", "Z">>
LowerCase == <<"a", "b", "c", "d", "e", "f", "g", "h", "i", "j", "k", "l", "m",
               "n", "o", "p", "q", "r", "s", "t", "u", "v", "w", "x", "y", "z">>

LowerChar(c) ==
    IF \E i \in 1..26 : UpperCase[i] = c
    THEN LowerCase[CHOOSE i \in 1..26 : UpperCase[i] = c]
    ELSE c

\* s.toLowerCase()
toLowerCase(s) == [i \in 1..Len(s) |-> LowerChar(s[i])]

\* hay.includes(needle)
includes(hay, needle) ==
    \E k \in 0..(Len(hay) - Len(needle)) :
        \A i \in 1..Len(needle) : hay[k + i] = needle[i]

\* s.trim(): whitespace is the blank
RECURSIVE TrimStart(_)
TrimStart(s) == IF s # <<>> /\ Head(s) = " " THEN TrimStart(Tail(s)) ELSE s

RECURSIVE TrimEnd(_)
TrimEnd(s) ==
    IF s # <<>> /\ s[Len(s)] = " " THEN TrimEnd(SubSeq(s, 1, Len(s) - 1)) ELSE s

trim(s) == TrimEnd(TrimStart(s))

T_top == <<"t", "o", "p">>
T_Top == <<"T", "o", "p">>
T_fair == <<"f", "a", "i", "r">>
T_standard == <<"s", "t", "a", "n", "d", "a", "r", "d">>
T_Grain == <<"G", "r", "a", "i", "n">>
T_grain == <<"g", "r", "a", "i", "n">>
T_other == <<"o", "t", "h", "e", "r">>
T_all == <<"a", "l", "l">>

----------------------------------------------------------------------------
(* The backend table and the rows it holds *)

Ids == {"a", "b"}

\* What a farmer can write into a row (all columns but the id)
Templates == <<
    [farmer_id |-> Str("f1"), farmer_phone |-> Str("0712345678"),
     crop_category |-> Txt(T_Grain), available_from |-> Ts(1),
     description |-> Str("dry"), location_lat |-> Num(1), location_lng |-> Num(34),
     google_maps_link |-> Null,
     crop_name |-> Txt(<<"M", "a", "i", "z", "e">>), variety |-> Txt(<<"L", "o", "n", "g", "e", " ", "5">>), quality |-> Txt(T_Top),
     price_per_unit |-> Num(1000), quantity |-> Num(50), unit |-> Str("bag"),
     farmer_name |-> Txt(<<"A", "m", "i", "n", "a">>), farmer_location |-> Txt(<<"M", "b", "a", "l", "e">>),
     distance_km |-> Num(12), listed_at |-> Ts(2), is_available |-> Bool(TRUE),
     photo |-> Str("u.jpg")],
    [farmer_id |-> Null, farmer_phone |-> Null,
     crop_category |-> Null, available_from |-> Null,
     description |-> Null, location_lat |-> Null, location_lng |-> Null,
     google_maps_link |-> Null,
     crop_name |-> Null, variety |-> Null, quality |-> Null,
     price_per_unit |-> Null, quantity |-> Null, unit |-> Null,
     farmer_name |-> Null, farmer_location |-> Null,
     distance_km |-> Null, listed_at |-> Null, is_available |-> Bool(TRUE),
     photo |-> Null],
    [farmer_id |-> Str("f2"), farmer_phone |-> Str("+256712345678"),
     crop_category |-> Txt(T_grain), available_from |-> Null,
     description |-> Null, location_lat |-> Null, location_lng |-> Null,
     google_maps_link |-> Null,
     crop_name |-> Txt(<<"M", "a", "i", "z", "e">>), variety |-> Null, quality |-> Txt(T_fair),
     price_per_unit |-> Num(900), quantity |-> Num(0), unit |-> Str("kg"),
     farmer_name |-> Txt(<<"J", "o", "h", "n">>), farmer_location |-> Txt(<<"G", "u", "l", "u">>),
     distance_km |-> Null, listed_at |-> Ts(1), is_available |-> Bool(FALSE),
     photo |-> Null]
>>

TemplateIds == 1..Len(Templates)

\* a row of the table: the id and the columns
WithId(id, r) == [k \in {"id"} \cup DOMAIN r |-> IF k = "id" THEN id ELSE r[k]]

\* The row stored under id when db[id] = k
Row(id, k) == WithId(Str(id), Templates[k])

\* payload.new of a DELETE event: no row
NoRow == [id |-> Null]

\* select('id, crop_name, ...'): the columns the Home page asks for
HomeColumns == {"id", "crop_name", "variety", "quality", "price_per_unit", "quantity",
                "unit", "farmer_name", "farmer_location", "distance_km", "listed_at",
                "is_available", "photo"}

Select(r, columns) == [k \in columns |-> r[k]]

NoEvent == [eventType |-> "NONE", old_id |-> Null, new |-> NoRow, seq |-> 0]

----------------------------------------------------------------------------
(* The backend commits changes and puts one event per commit on the feed *)

\* the page is mounted; the backend is followed while it is
Mounted ==
    CASE page = "home" -> h_alive
      [] page = "products" -> p_active
      [] page = "detail" -> TRUE
      [] page = "discover" -> g_active
      [] OTHER -> FALSE

\* the id an event is about, Null if it carries none
EventId(payload) ==
    IF payload.eventType = "DELETE" THEN payload.old_id ELSE payload.new.id

\* the page's realtime channel takes the event: every event of the table on the Home
\* and Discover pages, filter id=eq.${id} on the detail page, no channel on the Products
\* page
ChannelTakes(e) ==
    CASE page = "home" -> h_alive
      [] page = "detail" -> EventId(e) = Str(d_id)
      [] page = "discover" -> g_active
      [] OTHER -> FALSE

Emit(e) == /\ Mounted
           /\ feed' = IF ChannelTakes(e) THEN Append(feed, e) ELSE feed
           /\ commits' = commits + 1
           /\ idless' = (idless \/ (IF e.eventType = "DELETE" THEN e.old_id = Null
                                                              ELSE e.new.id = Null))

BackendInsert(id, k) ==
    /\ commits < MaxCommits
    /\ db[id] = 0
    /\ db' = [db EXCEPT ![id] = k]
    /\ Emit([eventType |-> "INSERT", old_id |-> Null,
             new |-> Row(id, k), seq |-> commits + 1])
    /\ UNCHANGED <<page, ordered, pageVars, extraVars>>

BackendUpdate(id, k) ==
    /\ commits < MaxCommits
    /\ db[id] # 0
    /\ db[id] # k
    /\ db' = [db EXCEPT ![id] = k]
    /\ Emit([eventType |-> "UPDATE", old_id |-> Str(id),
             new |-> Row(id, k), seq |-> commits + 1])
    /\ UNCHANGED <<page, ordered, pageVars, extraVars>>

BackendDelete(id, withId) ==
    /\ commits < MaxCommits
    /\ db[id] # 0
    /\ db' = [db EXCEPT ![id] = 0]
    /\ Emit([eventType |-> "DELETE", old_id |-> IF withId THEN Str(id) ELSE Null,
             new |-> NoRow, seq |-> commits + 1])
    /\ UNCHANGED <<page, ordered, pageVars, extraVars>>

\* select(...).eq('is_available', true): the rows of the table that are available
AvailableIds == {id \in Ids : db[id] # 0 /\ Templates[db[id]].is_available = Bool(TRUE)}

\* order('listed_at', {ascending: false}): descending, NULL first, ties in any order
TsKey(v) == IF v = Null THEN 1000 ELSE v[2]

OrderedByListedAt(s) ==
    \A i, j \in 1..Len(s) : i < j => TsKey(s[i].listed_at) >= TsKey(s[j].listed_at)

RECURSIVE SeqsOf(_)
SeqsOf(S) ==
    IF S = {} THEN {<<>>}
    ELSE UNION {{<<x>> \o t : t \in SeqsOf(S \ {x})} : x \in S}

ProductIds(s) == {s[i].id : i \in 1..Len(s)}

Take(s, n) == SubSeq(s, 1, IF Len(s) < n THEN Len(s) ELSE n)

----------------------------------------------------------------------------
(* HomePage (app/page.tsx) *)

\* load(): the backend runs the query and the response is on its way
HomeLoadQuery ==
    /\ page = "home"
    /\ h_load = "await"
    /\ \/ \E s \in SeqsOf({Select(Row(id, db[id]), HomeColumns) : id \in AvailableIds}) :
            /\ OrderedByListedAt(s)
            /\ h_snap' = Take(s, FetchLimit)
            /\ h_load' = "data"
       \/ /\ h_snap' = <<>>
          /\ h_load' = "error"
    /\ UNCHANGED <<notHome, hfVars, page, backendVars, h_products, h_loading, h_err, h_alive, h_ev, h_prev,
                   h_last, h_newest>>

\* the mapping of a fetched row
MapFetched(r) ==
    [r EXCEPT !.price_per_unit = safeNumber(r.price_per_unit, Num(0)),
              !.quantity = safeNumber(r.quantity, Num(0)),
              !.distance_km = IF r.distance_km = Null THEN Null
                              ELSE safeNumber(r.distance_km, Null)]

MapAll(s) == [i \in 1..Len(s) |-> MapFetched(s[i])]

\* load() after the await, with a data response
HomeLoadResponse ==
    /\ page = "home"
    /\ h_load = "data"
    /\ h_load' = "done"
    /\ IF h_alive
       THEN /\ h_products' = MapAll(h_snap)
            /\ h_loading' = FALSE
            /\ h_ev' = NoEvent
            /\ h_prev' = <<>>
            /\ h_last' = [id \in Ids |-> NoEvent]
            /\ UNCHANGED <<h_err>>
       ELSE UNCHANGED <<h_products, h_loading, h_err, h_ev, h_prev, h_last>>
    /\ UNCHANGED <<notHome, hfVars, page, backendVars, h_alive, h_snap, h_newest>>

\* load() after the await, with an error response
HomeLoadError ==
    /\ page = "home"
    /\ h_load = "error"
    /\ h_load' = "done"
    /\ IF h_alive
       THEN /\ h_err' = Str("Failed to load products.")
            /\ h_loading' = FALSE
       ELSE UNCHANGED <<h_err, h_loading>>
    /\ UNCHANGED <<notHome, hfVars, page, backendVars, h_products, h_alive, h_snap, h_ev, h_prev, h_last,
                   h_newest>>

\* a filter with the comparison inverted
FilterOutId_Inverted(prev, id) == SelectSeq(prev, LAMBDA p : p.id = id)

\* prev.filter((p) => p.id !== id)
FilterOutId(prev, id) == SelectSeq(prev, LAMBDA p : p.id # id)

\* the record the realtime handler builds from payload.new
Normalize(row) ==
    [id |-> JsString(row.id),
     crop_name |-> Coalesce(row.crop_name, Txt(<<"P", "r", "o", "d", "u", "c", "e">>)),
     variety |-> Coalesce(row.variety, Null),
     quality |-> Coalesce(row.quality, Txt(T_standard)),
     price_per_unit |-> safeNumber(row.price_per_unit, Num(0)),
     quantity |-> safeNumber(row.quantity, Num(0)),
     unit |-> Coalesce(row.unit, Str("kg")),
     farmer_name |-> Coalesce(row.farmer_name, Txt(<<"U", "n", "k", "n", "o", "w", "n", " ", "F", "a", "r", "m", "e", "r">>)),
     farmer_location |-> Coalesce(row.farmer_location, Txt(<<"U", "g", "a", "n", "d", "a">>)),
     distance_km |-> IF row.distance_km = Null THEN Null
                     ELSE safeNumber(row.distance_km, Null),
     listed_at |-> Coalesce(row.listed_at, Null),
     is_available |-> Boolean(row.is_available),
     photo |-> Coalesce(row.photo, Null)]

\* the spread in the other order: the old row's fields win
Spread_OldWins(p, n) ==
    [k \in DOMAIN p \cup DOMAIN n |-> IF k \in DOMAIN p THEN p[k] ELSE n[k]]

\* { ...p, ...normalized }
Spread(p, n) ==
    [k \in DOMAIN p \cup DOMAIN n |-> IF k \in DOMAIN n THEN n[k] ELSE p[k]]

\* an updater without the availability check
Upsert_KeepsUnavailable(prev, normalized) ==
    IF ~\E i \in 1..Len(prev) : prev[i].id = normalized.id
    THEN <<normalized>> \o prev
    ELSE [i \in 1..Len(prev) |->
            IF prev[i].id = normalized.id THEN normalized ELSE prev[i]]

\* the updater the handler passes to setProducts for an insert or update
Upsert(prev, normalized) ==
    IF normalized.is_available # Bool(TRUE) THEN FilterOutId(prev, normalized.id)
    ELSE IF ~\E i \in 1..Len(prev) : prev[i].id = normalized.id
         THEN <<normalized>> \o prev
         ELSE [i \in 1..Len(prev) |->
                 IF prev[i].id = normalized.id THEN Spread(prev[i], normalized)
                 ELSE prev[i]]

\* the realtime handler: the products after payload is applied to prev
OnPayload(prev, payload) ==
    IF payload.eventType = "DELETE"
    THEN IF Falsy(payload.old_id) THEN prev ELSE FilterOutId(prev, payload.old_id)
    ELSE IF Falsy(payload.new.id) THEN prev
         ELSE Upsert(prev, Normalize(payload.new))

RemoveAt(s, i) == SubSeq(s, 1, i - 1) \o SubSeq(s, i + 1, Len(s))

\* the channel delivers one event to the handler
HomeRealtime(i) ==
    /\ page = "home"
    /\ h_alive
    /\ i \in 1..Len(feed)
    /\ ordered => i = 1
    /\ LET payload == feed[i]
           eid == EventId(payload)
       IN /\ h_products' = OnPayload(h_products, payload)
          /\ h_ev' = payload
          /\ h_prev' = h_products
          /\ h_last' = [id \in Ids |-> IF Str(id) = eid THEN payload ELSE h_last[id]]
          /\ h_newest' = [id \in Ids |->
                            IF Str(id) = eid /\ payload.seq > h_newest[id]
                            THEN payload.seq ELSE h_newest[id]]
    /\ feed' = RemoveAt(feed, i)
    /\ UNCHANGED <<notHome, hfVars, page, db, commits, ordered, idless, h_loading, h_err, h_alive, h_load,
                   h_snap>>

\* the effects' cleanups: alive = false, removeChannel
HomeUnmount ==
    /\ page = "home"
    /\ h_alive
    /\ h_alive' = FALSE
    /\ feed' = <<>>
    /\ UNCHANGED <<notHome, hfVars, page, db, commits, ordered, idless, h_products, h_loading, h_err,
                   h_load, h_snap, h_ev, h_prev, h_last, h_newest>>

HomeIdle ==
    /\ h_products = <<>>
    /\ h_loading = TRUE
    /\ h_err = Null
    /\ h_alive = TRUE
    /\ h_load = "await"
    /\ h_snap = <<>>
    /\ h_ev = NoEvent
    /\ h_prev = <<>>
    /\ h_last = [id \in Ids |-> NoEvent]
    /\ h_newest = [id \in Ids |-> 0]
    /\ h_query = <<>>
    /\ h_quality = T_all
    /\ h_maxPrice = Str("")
    /\ h_sort = "distance"

DetailIdle ==
    /\ d_id = ""
    /\ d_product = <<>>
    /\ d_loading = TRUE
    /\ d_error = Null
    /\ d_fetches = {}
    /\ d_navs = 0
    /\ d_errorFor = ""

NoSignUpErrors ==
    [email |-> Null, first_name |-> Null, last_name |-> Null, password |-> Null,
     password2 |-> Null, phone_number |-> Null, submit |-> Null]

SignUpIdle ==
    /\ s_formData = [role |-> "guest"]
    /\ s_errors = NoSignUpErrors
    /\ s_isLoading = FALSE
    /\ s_successMsg = Str("")
    /\ s_pc = "form"
    /\ s_pushed = <<>>
    /\ s_result = "uncalled"
    /\ s_message = Null

MarketIdle ==
    /\ m_authId = Null
    /\ m_listings = <<>>
    /\ m_selectedListingId = Null
    /\ m_inserts = <<>>
    /\ m_pending = 0
    /\ m_clicks = 0
    /\ m_alert = ""
    /\ m_pushed = <<>>

\* no error met
NoError == [kind |-> "none"]

ProfileIdle ==
    /\ f_authUserId = Null
    /\ f_user = <<>>
    /\ f_form = [cropName |-> <<>>]
    /\ f_showAddModal = FALSE
    /\ f_savingProduct = FALSE
    /\ f_modalError = Null
    /\ f_success = Null
    /\ f_pc = "idle"
    /\ f_calls = <<>>
    /\ f_photoUrl = Null
    /\ f_result = "none"
    /\ f_raised = NoError
    /\ f_formAtSave = <<>>
    /\ f_saves = 0

LoginIdle ==
    /\ l_email = <<>>
    /\ l_password = <<>>
    /\ l_errors = [email |-> Null, password |-> Null, submit |-> Null]
    /\ l_isLoading = FALSE
    /\ l_pc = "form"
    /\ l_calls = <<>>
    /\ l_raw = <<>>
    /\ l_signIn = "uncalled"
    /\ l_session = "unread"
    /\ l_role = <<>>
    /\ l_redirect = ""

ProductsIdle ==
    /\ p_products = <<>>
    /\ p_loading = TRUE
    /\ p_active = TRUE
    /\ p_fetch = "await"
    /\ p_snap = <<>>
    /\ p_search = <<>>
    /\ p_selectedCategory = T_all
    /\ p_sortBy = "newest"

ContactIdle ==
    /\ w_phone = Null
    /\ w_opened = <<>>

DistanceIdle ==
    /\ k_from = <<0, 0>>
    /\ k_to = <<0, 0>>
    /\ k_km = [c \in {} |-> Null]

DiscoverIdle ==
    /\ g_rows = <<>>
    /\ g_loading = TRUE
    /\ g_active = TRUE
    /\ g_flights = [n \in {} |-> Null]
    /\ g_issued = 0
    /\ g_lastAnswer = <<>>
    /\ g_userLoc = <<>>
    /\ g_geoError = Null
    /\ g_radiusKm = DefaultRadiusKm
    /\ g_search = <<>>

NavbarIdle ==
    /\ n_user = <<>>
    /\ n_loading = TRUE
    /\ n_showDropdown = FALSE
    /\ n_run = 1
    /\ n_checks = {}
    /\ n_lookups = <<>>
    /\ n_session = Null
    /\ n_reported = <<>>
    /\ n_events = 0

ExtraIdle == ContactIdle /\ DistanceIdle /\ DiscoverIdle /\ NavbarIdle

\* every page is as it is before it is opened
PagesIdle ==
    /\ HomeIdle /\ ProductsIdle /\ DetailIdle /\ LoginIdle /\ SignUpIdle /\ ProfileIdle
    /\ MarketIdle

BackendInit ==
    /\ db \in [Ids -> {0} \cup TemplateIds]
    /\ commits = 0
    /\ feed = <<>>
    /\ ordered \in BOOLEAN
    /\ idless = FALSE

Backend ==
    \/ \E id \in Ids, k \in TemplateIds : BackendInsert(id, k)
    \/ \E id \in Ids, k \in TemplateIds : BackendUpdate(id, k)
    \/ \E id \in Ids, withId \in BOOLEAN : BackendDelete(id, withId)

InitHome == page = "home" /\ BackendInit /\ HomeIdle /\ ProductsIdle /\ DetailIdle /\ LoginIdle /\ SignUpIdle /\ ProfileIdle /\ MarketIdle /\ ExtraIdle

NextHome ==
    \/ Backend
    \/ HomeLoadQuery
    \/ HomeLoadResponse
    \/ HomeLoadError
    \/ \E i \in 1..Len(feed) : HomeRealtime(i)
    \/ HomeUnmount

SpecHome == InitHome /\ [][NextHome]_vars

----------------------------------------------------------------------------
(* ProductsPage (app/products/page.tsx): one fetch at mount, no realtime channel *)

\* fetchProducts(): the backend runs select('*').eq('is_available', true)
ProductsQuery ==
    /\ page = "products"
    /\ p_fetch = "await"
    /\ \/ \E s \in SeqsOf({Row(id, db[id]) : id \in AvailableIds}) :
            /\ OrderedByListedAt(s)
            /\ p_snap' = s
            /\ p_fetch' = "data"
       \/ /\ p_snap' = <<>>
          /\ p_fetch' = "error"
    /\ UNCHANGED <<notProducts, pfVars, page, backendVars, p_products, p_loading, p_active>>

\* fetchProducts() after the await
ProductsResponse ==
    /\ page = "products"
    /\ p_fetch \in {"data", "error"}
    /\ p_fetch' = IF p_fetch = "error" THEN "failed" ELSE "done"
    /\ IF ~p_active
       THEN UNCHANGED <<p_products, p_loading>>
       ELSE /\ p_products' = IF p_fetch = "error" THEN <<>> ELSE p_snap
            /\ p_loading' = FALSE
    /\ UNCHANGED <<notProducts, pfVars, page, backendVars, p_active, p_snap>>

\* the effect's cleanup: active = false
ProductsUnmount ==
    /\ page = "products"
    /\ p_active
    /\ p_active' = FALSE
    /\ UNCHANGED <<notProducts, pfVars, page, backendVars, p_products, p_loading, p_fetch, p_snap>>

InitProducts == page = "products" /\ BackendInit /\ HomeIdle /\ ProductsIdle /\ DetailIdle /\ LoginIdle /\ SignUpIdle /\ ProfileIdle /\ MarketIdle /\ ExtraIdle

NextProducts ==
    \/ Backend
    \/ ProductsQuery
    \/ ProductsResponse
    \/ ProductsUnmount

SpecProducts == InitProducts /\ [][NextProducts]_vars

----------------------------------------------------------------------------
(* ProductDetailPage (app/products/[id]/page.tsx) *)

\* (v).toLowerCase() of a string value
LowerStr(v) == Txt(toLowerCase(v[2]))

\* normalizedProduct / updatedProduct
DetailNormalize(data) ==
    [id |-> data.id,
     farmer_id |-> data.farmer_id,
     farmer_name |-> Or(data.farmer_name, Txt(<<"U", "n", "k", "n", "o", "w", "n", " ", "F", "a", "r", "m", "e", "r">>)),
     farmer_location |-> Or(data.farmer_location, Txt(<<"U", "g", "a", "n", "d", "a">>)),
     farmer_phone |-> data.farmer_phone,
     crop_name |-> Or(data.crop_name, Txt(<<"P", "r", "o", "d", "u", "c", "e">>)),
     crop_category |-> LowerStr(Or(data.crop_category, Txt(T_other))),
     variety |-> data.variety,
     quality |-> LowerStr(Or(data.quality, Txt(T_standard))),
     quantity |-> Number(Or(data.quantity, Num(0))),
     unit |-> Or(data.unit, Str("kg")),
     price_per_unit |-> Number(Or(data.price_per_unit, Num(0))),
     available_from |-> data.available_from,
     listed_at |-> data.listed_at,
     is_available |-> Boolean(data.is_available),
     photo |-> data.photo,
     description |-> data.description,
     location_lat |-> data.location_lat,
     location_lng |-> data.location_lng,
     google_maps_link |-> data.google_maps_link]

\* the fetch effect body for route id: if (!id) return; fetchProduct() up to its await
StartFetch(id, n) ==
    IF id = ""
    THEN UNCHANGED <<d_loading, d_error, d_fetches, d_errorFor>>
    ELSE /\ d_loading' = TRUE
         /\ d_error' = Null
         /\ d_errorFor' = ""
         /\ d_fetches' = d_fetches \cup {[n |-> n, id |-> id, state |-> "sent", data |-> <<>>]}

\* the route parameter changes: the fetch effect and the channel effect run again
DetailNavigate(newId) ==
    /\ page = "detail"
    /\ d_navs < MaxNavs
    /\ newId # d_id
    /\ d_id' = newId
    /\ d_navs' = d_navs + 1
    /\ StartFetch(newId, d_navs + 1)
    /\ feed' = <<>>
    /\ UNCHANGED <<notDetail, page, db, commits, ordered, idless, d_product>>

\* the backend runs .eq('id', id).single() for one fetch in flight
DetailQuery(f) ==
    /\ page = "detail"
    /\ f \in d_fetches
    /\ f.state = "sent"
    /\ d_fetches' = (d_fetches \ {f}) \cup
          {IF db[f.id] # 0
           THEN [f EXCEPT !.state = "data", !.data = <<Row(f.id, db[f.id])>>]
           ELSE [f EXCEPT !.state = "error"]}
    /\ UNCHANGED <<notDetail, page, backendVars, d_id, d_product, d_loading, d_error,
                   d_navs, d_errorFor>>

\* fetchProduct() after the await
DetailResponse(f) ==
    /\ page = "detail"
    /\ f \in d_fetches
    /\ f.state \in {"data", "error"}
    /\ d_fetches' = d_fetches \ {f}
    /\ IF f.state = "error"
       THEN /\ d_error' = Str("Product not found or has been removed")
            /\ d_errorFor' = f.id
            /\ d_loading' = FALSE
            /\ UNCHANGED d_product
       ELSE /\ d_product' = <<DetailNormalize(f.data[1])>>
            /\ d_loading' = FALSE
            /\ UNCHANGED <<d_error, d_errorFor>>
    /\ UNCHANGED <<notDetail, page, backendVars, d_id, d_navs>>

\* the handler of channel product-${id}
DetailRealtime(i) ==
    /\ page = "detail"
    /\ i \in 1..Len(feed)
    /\ ordered => i = 1
    /\ IF feed[i].eventType = "DELETE"
       THEN /\ d_error' = Str("Product has been deleted")
            /\ d_errorFor' = d_id
            /\ d_product' = <<>>
       ELSE /\ d_product' = <<DetailNormalize(feed[i].new)>>
            /\ UNCHANGED <<d_error, d_errorFor>>
    /\ feed' = RemoveAt(feed, i)
    /\ UNCHANGED <<notDetail, page, db, commits, ordered, idless, d_id, d_loading,
                   d_fetches, d_navs>>

InitDetail ==
    /\ page = "detail"
    /\ BackendInit /\ HomeIdle /\ ProductsIdle /\ LoginIdle /\ SignUpIdle /\ ProfileIdle /\ MarketIdle /\ ExtraIdle
    /\ ordered
    /\ d_id \in Ids
    /\ d_product = <<>>
    /\ d_loading = TRUE
    /\ d_error = Null
    /\ d_errorFor = ""
    /\ d_fetches = {[n |-> 0, id |-> d_id, state |-> "sent", data |-> <<>>]}
    /\ d_navs = 0

NextDetail ==
    \/ Backend
    \/ \E newId \in Ids : DetailNavigate(newId)
    \/ \E f \in d_fetches : DetailQuery(f)
    \/ \E f \in d_fetches : DetailResponse(f)
    \/ \E i \in 1..Len(feed) : DetailRealtime(i)

SpecDetail == InitDetail /\ [][NextDetail]_vars

----------------------------------------------------------------------------
(* LoginPage (app/login/page.tsx) *)

\* /^[^\s@]+@[^\s@]+\.[^\s@]+$/.test(s)
emailRegexTest(s) ==
    /\ \A i \in 1..Len(s) : s[i] # " "
    /\ Cardinality({i \in 1..Len(s) : s[i] = "@"}) = 1
    /\ \E i \in 2..Len(s) :
          /\ s[i] = "@"
          /\ \E j \in (i + 2)..(Len(s) - 1) : s[j] = "."

\* what the user can have typed into the form
Emails == {<<>>, <<"a", "@", "b">>, <<" ", "A", "@", "b", ".", "c", " ">>, <<"f", "@", "x", ".", "i", "o">>}
Passwords == {<<>>, <<"1", "2", "3", "4", "5">>, <<"s", "e", "c", "r", "e", "t">>}

\* validate(): the next errors object
validate(email, password) ==
    LET normalizedEmail == toLowerCase(trim(email)) IN
    [email |-> IF normalizedEmail = <<>> THEN Str("Email is required")
               ELSE IF ~emailRegexTest(normalizedEmail)
                    THEN Str("Please enter a valid email address")
                    ELSE Null,
     password |-> IF password = <<>> THEN Str("Password is required")
                  ELSE IF Len(password) < MinPasswordLength
                       THEN Str("Password must be at least 6 characters")
                       ELSE Null,
     submit |-> Null]

\* Object.keys(next).length === 0
NoErrors(next) == next.email = Null /\ next.password = Null /\ next.submit = Null

N_invalid_login_credentials == <<"i", "n", "v", "a", "l", "i", "d", " ", "l", "o", "g", "i", "n", " ", "c", "r", "e", "d", "e", "n", "t", "i", "a", "l", "s">>
N_email_not_confirmed == <<"e", "m", "a", "i", "l", " ", "n", "o", "t", " ", "c", "o", "n", "f", "i", "r", "m", "e", "d">>
N_invalid_email == <<"i", "n", "v", "a", "l", "i", "d", " ", "e", "m", "a", "i", "l">>
N_rate_limit == <<"r", "a", "t", "e", " ", "l", "i", "m", "i", "t">>
N_too_many == <<"t", "o", "o", " ", "m", "a", "n", "y">>

M_credentials ==
    Str("Invalid email or password. Please check your credentials and try again.")
M_confirm ==
    Str("Please confirm your email address before logging in. Check your inbox for the confirmation email.")
M_invalid_email == Str("Please enter a valid email address.")
M_throttled == Str("Too many attempts. Please wait a few minutes before trying again.")
M_login_failed == Str("Login failed. Please try again.")

\* the checks of friendlyAuthError in the order of a different priority
friendlyAuthError_ThrottleFirst(msg) ==
    LET m == toLowerCase(msg) IN
    IF includes(m, N_rate_limit) \/ includes(m, N_too_many) THEN M_throttled
    ELSE IF includes(m, N_invalid_login_credentials) THEN M_credentials
    ELSE IF includes(m, N_email_not_confirmed) THEN M_confirm
    ELSE IF includes(m, N_invalid_email) THEN M_invalid_email
    ELSE M_login_failed

friendlyAuthError(msg) ==
    LET m == toLowerCase(msg) IN
    IF includes(m, N_invalid_login_credentials) THEN M_credentials
    ELSE IF includes(m, N_email_not_confirmed) THEN M_confirm
    ELSE IF includes(m, N_invalid_email) THEN M_invalid_email
    ELSE IF includes(m, N_rate_limit) \/ includes(m, N_too_many) THEN M_throttled
    ELSE M_login_failed

\* a redirect that sends an unknown or missing role elsewhere
getRedirectForRole_DefaultHome(role) ==
    LET r == toLowerCase(Or(role, Txt(<<>>))[2]) IN
    IF r = <<"b", "u", "y", "e", "r">> THEN "/products"
    ELSE IF r = <<"f", "a", "r", "m", "e", "r">> THEN "/products"
    ELSE IF r = <<"a", "d", "m", "i", "n">> THEN "/products"
    ELSE "/"

getRedirectForRole(role) ==
    LET r == toLowerCase(Or(role, Txt(<<>>))[2]) IN
    IF r = <<"b", "u", "y", "e", "r">> THEN "/products"
    ELSE IF r = <<"f", "a", "r", "m", "e", "r">> THEN "/products"
    ELSE IF r = <<"a", "d", "m", "i", "n">> THEN "/products"
    ELSE "/products"

\* the phrases an error.message of the auth service is made of
Phrases == <<<<"I", "n", "v", "a", "l", "i", "d", " ", "l", "o", "g", "i", "n", " ", "c", "r", "e", "d", "e", "n", "t", "i", "a", "l", "s">>, <<"E", "m", "a", "i", "l", " ", "n", "o", "t", " ", "c", "o", "n", "f", "i", "r", "m", "e", "d">>,
             <<"i", "n", "v", "a", "l", "i", "d", " ", "e", "m", "a", "i", "l">>, <<"r", "a", "t", "e", " ", "l", "i", "m", "i", "t">>, <<"T", "o", "o", " ", "m", "a", "n", "y">>, <<":", " ">>>>

RECURSIVE Concat(_)
Concat(ps) == IF ps = <<>> THEN <<>> ELSE Phrases[Head(ps)] \o Concat(Tail(ps))

RawErrors ==
    {Concat(ps) : ps \in UNION {[1..n -> 1..Len(Phrases)] : n \in 0..MaxPhrases}}

\* accounts_user.role as stored
Roles == {Txt(<<"b", "u", "y", "e", "r">>), Txt(<<"f", "a", "r", "m", "e", "r">>), Txt(<<"F", "a", "r", "m", "e", "r">>), Txt(<<"a", "d", "m", "i", "n">>),
          Txt(<<"g", "u", "e", "s", "t">>), Null}

\* the finally block
LoginFinish ==
    /\ l_isLoading' = FALSE
    /\ l_pc' = "done"

\* onSubmit() up to its first await
LoginSubmit ==
    /\ page = "login"
    /\ l_pc = "form"
    /\ l_errors' = validate(l_email, l_password)
    /\ IF ~NoErrors(validate(l_email, l_password))
       THEN /\ l_pc' = "done"
            /\ UNCHANGED <<l_isLoading, l_calls>>
       ELSE /\ l_isLoading' = TRUE
            /\ l_calls' = <<"signInWithPassword">>
            /\ l_pc' = "signIn"
    /\ UNCHANGED <<notLogin, page, l_email, l_password, l_raw, l_signIn, l_session, l_role,
                   l_redirect>>

\* signInWithPassword returned { error } with error.message = raw
LoginSignInError(raw) ==
    /\ page = "login"
    /\ l_pc = "signIn"
    /\ l_raw' = raw
    /\ l_errors' =
          IF includes(toLowerCase(raw), N_invalid_login_credentials)
          THEN [email |-> Str("Check your email"), password |-> Str("Check your password"),
                submit |-> friendlyAuthError(raw)]
          ELSE [email |-> Null, password |-> Null, submit |-> friendlyAuthError(raw)]
    /\ LoginFinish
    /\ l_signIn' = "error"
    /\ UNCHANGED <<notLogin, page, l_email, l_password, l_calls, l_session, l_role,
                   l_redirect>>

\* signInWithPassword returned no error: the session is read again
LoginSignInOk ==
    /\ page = "login"
    /\ l_pc = "signIn"
    /\ l_pc' = "getSession"
    /\ l_signIn' = "ok"
    /\ l_calls' = Append(l_calls, "getSession")
    /\ UNCHANGED <<notLogin, page, l_email, l_password, l_errors, l_isLoading, l_raw,
                   l_session, l_role, l_redirect>>

\* an awaited call threw: the catch block
LoginThrow ==
    /\ page = "login"
    /\ l_pc \in {"signIn", "getSession"}
    /\ l_errors' = [email |-> Null, password |-> Null, submit |->
          Str("Something went wrong. Please try again or contact support if the problem continues.")]
    /\ LoginFinish
    /\ l_signIn' = IF l_pc = "signIn" THEN "threw" ELSE l_signIn
    /\ l_session' = IF l_pc = "getSession" THEN "threw" ELSE l_session
    /\ UNCHANGED <<notLogin, page, l_email, l_password, l_calls, l_raw, l_role, l_redirect>>

\* getSession() returned; sessionEmail is data.session.user.email, Null without one
LoginSession(sessionEmail) ==
    /\ page = "login"
    /\ l_pc = "getSession"
    /\ IF Falsy(sessionEmail)
       THEN /\ l_errors' = [email |-> Null, password |-> Null, submit |->
                  Str("Signed in, but session was not created. Please retry.")]
            /\ l_session' = "none"
            /\ LoginFinish
            /\ UNCHANGED l_calls
       ELSE /\ l_session' = "email"
            /\ l_pc' = "role"
            /\ l_calls' = Append(l_calls, "fetchUserRoleByEmail")
            /\ UNCHANGED <<l_errors, l_isLoading>>
    /\ UNCHANGED <<notLogin, page, l_email, l_password, l_raw, l_signIn, l_role, l_redirect>>

\* fetchUserRoleByEmail() returned data?.role ?? null, or threw (role = null); then
\* the form is cleared and the router is sent to the landing route
LoginRole(role, threw) ==
    /\ page = "login"
    /\ l_pc = "role"
    /\ l_role' = <<IF threw THEN Null ELSE role>>
    /\ l_email' = <<>>
    /\ l_password' = <<>>
    /\ l_redirect' = getRedirectForRole(IF threw THEN Null ELSE role)
    /\ l_calls' = l_calls \o <<"router.replace", "router.refresh">>
    /\ LoginFinish
    /\ UNCHANGED <<notLogin, page, l_errors, l_raw, l_signIn, l_session>>

InitLogin ==
    /\ page = "login"
    /\ BackendInit /\ db = [id \in Ids |-> 0] /\ ordered
    /\ HomeIdle /\ ProductsIdle /\ DetailIdle /\ SignUpIdle /\ ProfileIdle /\ MarketIdle /\ ExtraIdle
    /\ l_email \in Emails
    /\ l_password \in Passwords
    /\ l_errors = [email |-> Null, password |-> Null, submit |-> Null]
    /\ l_isLoading = FALSE
    /\ l_pc = "form"
    /\ l_calls = <<>>
    /\ l_raw = <<>>
    /\ l_signIn = "uncalled"
    /\ l_session = "unread"
    /\ l_role = <<>>
    /\ l_redirect = ""

NextLogin ==
    \/ LoginSubmit
    \/ \E raw \in RawErrors : LoginSignInError(raw)
    \/ LoginSignInOk
    \/ LoginThrow
    \/ \E e \in {Null, Txt(<<>>), Txt(<<"f", "@", "x", ".", "i", "o">>)} : LoginSession(e)
    \/ \E role \in Roles, threw \in BOOLEAN : LoginRole(role, threw)

SpecLogin == InitLogin /\ [][NextLogin]_vars

----------------------------------------------------------------------------
(* SignUpPage (app/signup/page.tsx) *)

Digits == {"0", "1", "2", "3", "4", "5", "6", "7", "8", "9"}

\* /^\+?\d{9,15}$/.test(s)
phoneRegexTest(s) ==
    LET d == IF s # <<>> /\ Head(s) = "+" THEN Tail(s) ELSE s IN
    /\ Len(d) >= PhoneMinDigits
    /\ Len(d) <= PhoneMaxDigits
    /\ \A i \in 1..Len(d) : d[i] \in Digits

\* what the user can have entered into the form
FormRoles == {"farmer", "buyer", "guest"}

FilledForm(role, phone) ==
    [email |-> <<"f", "@", "x", ".", "i", "o">>, password |-> <<"s", "e", "c", "r", "e", "t">>, password2 |-> <<"s", "e", "c", "r", "e", "t">>,
     first_name |-> <<"A", "m", "i", "n", "a">>, last_name |-> <<"K">>, phone_number |-> phone,
     location |-> <<"M", "b", "a", "l", "e">>, preferred_language |-> "en", role |-> role]

Forms ==
    {FilledForm(role, phone) :
        role \in FormRoles, phone \in {<<>>, <<"+", "2", "5", "6", "7", "1", "2", "3", "4", "5", "6", "7", "8">>, <<"0", "7", "1", "2">>}}
    \cup {[FilledForm("farmer", <<>>) EXCEPT !.email = <<>>],
          [FilledForm("buyer", <<>>) EXCEPT !.email = <<"a", "@", "b">>],
          [FilledForm("buyer", <<>>) EXCEPT !.first_name = <<>>, !.last_name = <<>>],
          [FilledForm("guest", <<>>) EXCEPT !.password = <<"1", "2", "3", "4", "5">>, !.password2 = <<>>],
          [FilledForm("guest", <<>>) EXCEPT !.password2 = <<"s", "e", "c", "r", "e", "T">>]}

\* validateForm(): the newErrors object
validateForm(f) ==
    [email |-> IF f.email = <<>> THEN Str("Email is required")
               ELSE IF ~emailRegexTest(f.email)
                    THEN Str("Please enter a valid email address")
                    ELSE Null,
     first_name |-> IF f.first_name = <<>> THEN Str("First name is required") ELSE Null,
     last_name |-> IF f.last_name = <<>> THEN Str("Last name is required") ELSE Null,
     password |-> IF f.password = <<>> THEN Str("Password is required")
                  ELSE IF Len(f.password) < MinPasswordLength
                       THEN Str("Password must be at least 6 characters")
                       ELSE Null,
     password2 |-> IF f.password2 = <<>> THEN Str("Please confirm your password")
                   ELSE IF f.password # f.password2 THEN Str("Passwords do not match")
                        ELSE Null,
     phone_number |-> IF f.phone_number # <<>> /\ ~phoneRegexTest(f.phone_number)
                      THEN Str("Please enter a valid phone number")
                      ELSE Null,
     submit |-> Null]

N_already == <<"a", "l", "r", "e", "a", "d", "y">>
N_registered == <<"r", "e", "g", "i", "s", "t", "e", "r", "e", "d">>

M_account_exists == Str("An account with this email already exists.")
M_registration_failed == Str("Registration failed. Please try again.")

\* the submit message without lower-casing the error text
SignUpErrorMessage_CaseSensitive(message) ==
    IF message # Null /\ (includes(message[2], N_already) \/ includes(message[2], N_registered))
    THEN M_account_exists
    ELSE Or(message, M_registration_failed)

\* the submit message for the error the sign-up call returned
SignUpErrorMessage(message) ==
    IF message # Null /\ (\/ includes(toLowerCase(message[2]), N_already)
                         \/ includes(toLowerCase(message[2]), N_registered))
    THEN M_account_exists
    ELSE Or(message, M_registration_failed)

\* redirectAfterSignup with the two dashboards exchanged
redirectAfterSignup_Swapped(role) ==
    IF role = "farmer" THEN "/buyer/dashboard"
    ELSE IF role = "buyer" THEN "/farmer/dashboard"
    ELSE "/dashboard"

redirectAfterSignup(role) ==
    IF role = "farmer" THEN "/farmer/dashboard"
    ELSE IF role = "buyer" THEN "/buyer/dashboard"
    ELSE "/dashboard"

\* the phrases an error.message of the sign-up call is made of
SignUpPhrases == <<<<"U", "s", "e", "r", " ", "a", "l", "r", "e", "a", "d", "y", " ", "r", "e", "g", "i", "s", "t", "e", "r", "e", "d">>, <<"A", "L", "R", "E", "A", "D", "Y">>, <<"R", "e", "g", "i", "s", "t", "e", "r", "e", "d">>,
                   <<"r", "a", "t", "e", " ", "l", "i", "m", "i", "t">>, <<"P", "a", "s", "s", "w", "o", "r", "d", " ", "i", "s", " ", "t", "o", "o", " ", "w", "e", "a", "k">>, <<":", " ">>>>

RECURSIVE SignUpConcat(_)
SignUpConcat(ps) ==
    IF ps = <<>> THEN <<>> ELSE SignUpPhrases[Head(ps)] \o SignUpConcat(Tail(ps))

\* error.message: absent, or a text
SignUpMessages ==
    {Null} \cup
    {Txt(SignUpConcat(ps)) :
        ps \in UNION {[1..n -> 1..Len(SignUpPhrases)] : n \in 0..MaxPhrases}}

\* the finally block
SignUpFinish ==
    /\ s_isLoading' = FALSE
    /\ s_pc' = "done"

\* handleSubmit() up to its await
SignUpSubmit ==
    /\ page = "signup"
    /\ s_pc = "form"
    /\ IF validateForm(s_formData) # NoSignUpErrors
       THEN /\ s_errors' = validateForm(s_formData)
            /\ s_pc' = "done"
            /\ UNCHANGED <<s_isLoading, s_successMsg>>
       ELSE /\ s_errors' = [validateForm(s_formData) EXCEPT !.submit = Str("")]
            /\ s_isLoading' = TRUE
            /\ s_successMsg' = Str("")
            /\ s_pc' = "signUp"
    /\ UNCHANGED <<notSignUp, page, s_formData, s_pushed, s_result, s_message>>

\* signUp returned { error }
SignUpError(message) ==
    /\ page = "signup"
    /\ s_pc = "signUp"
    /\ s_result' = "error"
    /\ s_message' = message
    /\ s_errors' = [NoSignUpErrors EXCEPT !.submit = SignUpErrorMessage(message)]
    /\ SignUpFinish
    /\ UNCHANGED <<notSignUp, page, s_formData, s_successMsg, s_pushed>>

\* signUp returned no error, with data.session or without
SignUpOk(hasSession) ==
    /\ page = "signup"
    /\ s_pc = "signUp"
    /\ IF ~hasSession
       THEN /\ s_result' = "nosession"
            /\ s_successMsg' =
                  Str("Account created! Please check your email to verify your account.")
            /\ s_pushed' = Append(s_pushed, "/check-email")
       ELSE /\ s_result' = "session"
            /\ s_successMsg' = Str("Account created successfully! Redirecting...")  \* the source ends it with one ellipsis character
            /\ s_pushed' = Append(s_pushed, redirectAfterSignup(s_formData.role))
    /\ SignUpFinish
    /\ UNCHANGED <<notSignUp, page, s_formData, s_errors, s_message>>

\* signUp threw err: the catch block
SignUpThrow(message) ==
    /\ page = "signup"
    /\ s_pc = "signUp"
    /\ s_result' = "threw"
    /\ s_message' = message
    /\ s_errors' = [NoSignUpErrors EXCEPT !.submit = Or(message, M_registration_failed)]
    /\ SignUpFinish
    /\ UNCHANGED <<notSignUp, page, s_formData, s_successMsg, s_pushed>>

InitSignUp ==
    /\ page = "signup"
    /\ BackendInit /\ db = [id \in Ids |-> 0] /\ ordered
    /\ HomeIdle /\ ProductsIdle /\ DetailIdle /\ LoginIdle /\ ProfileIdle /\ MarketIdle /\ ExtraIdle
    /\ s_formData \in Forms
    /\ s_errors = NoSignUpErrors
    /\ s_isLoading = FALSE
    /\ s_successMsg = Str("")
    /\ s_pc = "form"
    /\ s_pushed = <<>>
    /\ s_result = "uncalled"
    /\ s_message = Null

NextSignUp ==
    \/ SignUpSubmit
    \/ \E message \in SignUpMessages : SignUpError(message)
    \/ \E hasSession \in BOOLEAN : SignUpOk(hasSession)
    \/ \E message \in {Null, Txt(<<"F", "a", "i", "l", "e", "d", " ", "t", "o", " ", "f", "e", "t", "c", "h">>)} : SignUpThrow(message)

SpecSignUp == InitSignUp /\ [][NextSignUp]_vars

----------------------------------------------------------------------------
(* ProfilePage (app/profile/page.tsx): the Add Product modal and saveProduct() *)

\* a finite number, held in thousandths; the inputs drawn have at most three decimals
Dec(m) == <<"dec", m>>
\* Infinity and -Infinity
Inf(sign) == <<"inf", sign>>

DigitChars == <<"0", "1", "2", "3", "4", "5", "6", "7", "8", "9">>
DigitVal(c) == (CHOOSE i \in 1..10 : DigitChars[i] = c) - 1
IsDigitSeq(s) == \A i \in 1..Len(s) : s[i] \in Digits

RECURSIVE DigitsValue(_)
DigitsValue(s) ==
    IF s = <<>> THEN 0
    ELSE DigitsValue(SubSeq(s, 1, Len(s) - 1)) * 10 + DigitVal(s[Len(s)])

RECURSIVE Pow10(_)
Pow10(n) == IF n = 0 THEN 1 ELSE 10 * Pow10(n - 1)

\* the first position of one of the characters cs in s, 0 if there is none
IndexOfAny(s, cs) ==
    IF \E i \in 1..Len(s) : s[i] \in cs
    THEN CHOOSE i \in 1..Len(s) : s[i] \in cs /\ \A j \in 1..(i - 1) : s[j] \notin cs
    ELSE 0

\* the last position of character c in s, 0 if there is none
LastIndexOf(s, c) ==
    IF \E i \in 1..Len(s) : s[i] = c
    THEN CHOOSE i \in 1..Len(s) : s[i] = c /\ \A j \in (i + 1)..Len(s) : s[j] # c
    ELSE 0

\* digits [. digits] or . digits, in thousandths; <<>> if s is not of that form
DecimalMilli(s) ==
    LET dot == IndexOfAny(s, {"."})
        ip == IF dot = 0 THEN s ELSE SubSeq(s, 1, dot - 1)
        fp == IF dot = 0 THEN <<>> ELSE SubSeq(s, dot + 1, Len(s))
        f3 == SubSeq(fp \o <<"0", "0", "0">>, 1, 3)
    IN IF IsDigitSeq(ip) /\ IsDigitSeq(fp) /\ Len(ip) + Len(fp) > 0
       THEN <<DigitsValue(ip) * 1000 + DigitsValue(f3)>>
       ELSE <<>>

\* an unsigned StrDecimalLiteral with an optional exponent part, in thousandths
UnsignedMilli(u) ==
    LET e == IndexOfAny(u, {"e", "E"})
        mant == IF e = 0 THEN u ELSE SubSeq(u, 1, e - 1)
        ex == IF e = 0 THEN <<>> ELSE SubSeq(u, e + 1, Len(u))
        exNeg == ex # <<>> /\ Head(ex) = "-"
        exDigits == IF ex # <<>> /\ Head(ex) \in {"+", "-"} THEN Tail(ex) ELSE ex
        m == DecimalMilli(mant)
    IN IF m = <<>> THEN <<>>
       ELSE IF e = 0 THEN m
       ELSE IF exDigits = <<>> \/ ~IsDigitSeq(exDigits) THEN <<>>
       ELSE IF exNeg THEN <<m[1] \div Pow10(DigitsValue(exDigits))>>
       ELSE <<m[1] * Pow10(DigitsValue(exDigits))>>

\* Number(s) for a string s (decimal literals; hexadecimal and the like are not drawn)
StringToNumber(s) ==
    LET t == trim(s) IN
    IF t = <<>> THEN Dec(0)
    ELSE LET sign == IF Head(t) = "-" THEN -1 ELSE 1
             u == IF Head(t) \in {"+", "-"} THEN Tail(t) ELSE t
         IN IF u = <<"I", "n", "f", "i", "n", "i", "t", "y">> THEN Inf(sign)
            ELSE IF UnsignedMilli(u) = <<>> THEN NaN
            ELSE Dec(sign * UnsignedMilli(u)[1])

\* Number.isFinite(n)
isFinite(n) == n[1] = "dec"

\* Number(n.toFixed(2)) for a finite n: the nearest hundredth (the inputs drawn that lie
\* half-way between two hundredths are ones whose binary value rounds upwards)
toFixed2(n) ==
    IF n[2] >= 0 THEN Dec(((n[2] + 5) \div 10) * 10)
    ELSE Dec(-(((-n[2] + 5) \div 10) * 10))

T_farmer == <<"f", "a", "r", "m", "e", "r">>
T_guest == <<"g", "u", "e", "s", "t">>
AllowedRoles ==
    {<<"a", "d", "m", "i", "n">>, T_farmer, <<"b", "u", "y", "e", "r">>, <<"l", "o", "g", "i", "s", "t", "i", "c", "s">>, <<"f", "i", "n", "a", "n", "c", "e">>, T_guest}

\* String(role || 'guest').toLowerCase(), 'guest' unless allowed
safeRole(role) ==
    LET r == toLowerCase(Or(role, Txt(T_guest))[2]) IN
    IF r \in AllowedRoles THEN r ELSE T_guest

\* role = safeRole(user?.role || 'guest')
ProfileRole(user) == safeRole(Or(IF user = <<>> THEN Null ELSE user[1].role, Txt(T_guest)))

\* fullName
FullName(user, role) ==
    LET f == IF user = <<>> THEN <<>> ELSE trim(Or(user[1].first_name, Txt(<<>>))[2])
        l == IF user = <<>> THEN <<>> ELSE trim(Or(user[1].last_name, Txt(<<>>))[2])
        name == trim(f \o <<" ">> \o l)
    IN IF name # <<>> THEN Txt(name)
       ELSE IF role = T_guest THEN Str("Guest") ELSE Str("Unnamed user")

\* buildGoogleMapsLink(lat, lng)
buildGoogleMapsLink(lat, lng) ==
    IF lat[1] # "num" \/ lng[1] # "num" THEN Null
    ELSE <<"url", "https://www.google.com/maps?q=", lat[2], lng[2]>>

PRODUCE_BUCKET == "produce-photos"

\* (file.name.split('.').pop() || 'jpg').toLowerCase()
FileExt(name) ==
    LET last == SubSeq(name, LastIndexOf(name, ".") + 1, Len(name)) IN
    toLowerCase(IF last = <<>> THEN <<"j", "p", "g">> ELSE last)

\* uploadProduceImage: path = `${farmerId}/${fileName}`; stamp stands for Date.now() and
\* Math.random() of the file name
UploadPath_SharedFolder(file, farmerId, stamp) ==
    [dir |-> Str("uploads"), stamp |-> stamp, ext |-> FileExt(file.name)]

UploadPath(file, farmerId, stamp) ==
    [dir |-> farmerId, stamp |-> stamp, ext |-> FileExt(file.name)]

UploadCall(file, farmerId, stamp) ==
    [op |-> "upload", bucket |-> PRODUCE_BUCKET, path |-> UploadPath(file, farmerId, stamp),
     upsert |-> TRUE, contentType |-> Or(file.type, Str("image/jpeg"))]

\* getPublicUrl(path).data.publicUrl
PublicUrl(path) == <<"publicUrl", PRODUCE_BUCKET, path>>

\* the validation without the Number.isFinite tests
SaveValidationError_NoFiniteTest(form) ==
    LET name == trim(form.cropName)
        locationText == trim(form.farmerLocation)
        quantityNum == StringToNumber(trim(form.quantity))
        priceNum == StringToNumber(trim(form.pricePerUnit))
    IN IF name = <<>> THEN Str("Crop name is required.")
       ELSE IF locationText = <<>> THEN Str("Produce location is required.")
       ELSE IF quantityNum[1] = "dec" /\ quantityNum[2] <= 0
            THEN Str("Quantity must be a valid number greater than 0.")
       ELSE IF priceNum[1] = "dec" /\ priceNum[2] <= 0
            THEN Str("Price per unit must be a valid number greater than 0.")
       ELSE IF Falsy(form.availableFrom) THEN Str("Available from date is required.")
       ELSE Null

\* the first validation failed in saveProduct(), Null when the form passes
SaveValidationError(form) ==
    LET name == trim(form.cropName)
        locationText == trim(form.farmerLocation)
        quantityNum == StringToNumber(trim(form.quantity))
        priceNum == StringToNumber(trim(form.pricePerUnit))
    IN IF name = <<>> THEN Str("Crop name is required.")
       ELSE IF locationText = <<>> THEN Str("Produce location is required.")
       ELSE IF ~isFinite(quantityNum) \/ quantityNum[2] <= 0
            THEN Str("Quantity must be a valid number greater than 0.")
       ELSE IF ~isFinite(priceNum) \/ priceNum[2] <= 0
            THEN Str("Price per unit must be a valid number greater than 0.")
       ELSE IF Falsy(form.availableFrom) THEN Str("Available from date is required.")
       ELSE Null

\* payload
SavePayload(form, user, authUserId, photoUrl) ==
    LET base ==
          [farmer_id |-> authUserId,
           farmer_name |-> FullName(user, ProfileRole(user)),
           farmer_location |-> Txt(trim(form.farmerLocation)),
           farmer_phone |-> Coalesce(user[1].phone_number, Null),
           crop_name |-> Txt(trim(form.cropName)),
           variety |-> Or(Txt(trim(form.variety)), Null),
           quality |-> form.quality,
           quantity |-> toFixed2(StringToNumber(trim(form.quantity))),
           unit |-> form.unit,
           price_per_unit |-> StringToNumber(trim(form.pricePerUnit)),
           distance_km |-> IF trim(form.distanceKm) # <<>>
                           THEN StringToNumber(form.distanceKm) ELSE Null,
           location_lat |-> form.lat,
           location_lng |-> form.lng,
           google_maps_link |-> buildGoogleMapsLink(form.lat, form.lng),
           available_from |-> form.availableFrom,
           is_available |-> TRUE,
           photo |-> photoUrl,
           description |-> Or(Txt(trim(form.description)), Null)]
    IN IF form.selectedCategoryId # Str("")
       THEN [c \in DOMAIN base \cup {"category_id"} |->
                IF c = "category_id" THEN form.selectedCategoryId ELSE base[c]]
       ELSE base

InsertCall(payload) == [op |-> "insert", table |-> "farm_produce", payload |-> payload]

\* todayISO()
todayISO == Str("2026-01-15")

\* resetForm(): the form fields afterwards
ResetForm ==
    [cropName |-> <<>>, variety |-> <<>>, quality |-> "standard", quantity |-> <<>>,
     unit |-> "kg", pricePerUnit |-> <<>>, availableFrom |-> todayISO,
     selectedCategoryId |-> Str(""), description |-> <<>>, farmerLocation |-> <<>>,
     distanceKm |-> <<>>, lat |-> Null, lng |-> Null, imageFile |-> <<>>]

\* the accounts_user profiles loadAll() can have stored
FarmerUser ==
    [id |-> Str("7"), email |-> Str("f@x.io"), first_name |-> Txt(<<" ", "A", "m", "i", "n", "a", " ">>),
     last_name |-> Null, phone_number |-> Null, role |-> Txt(<<"F", "a", "r", "m", "e", "r">>)]
BuyerUser ==
    [id |-> Str("8"), email |-> Str("b@x.io"), first_name |-> Null, last_name |-> Null,
     phone_number |-> Str("0712345678"), role |-> Txt(<<"b", "u", "y", "e", "r">>)]
GuestUser ==
    [id |-> Str("guest"), email |-> Str("guest"), first_name |-> Txt(<<"G", "u", "e", "s", "t">>),
     last_name |-> Null, phone_number |-> Null, role |-> Txt(T_guest)]

\* authUserId and user as loadAll() leaves them: before it ran, guest mode, a farmer,
\* a buyer, a profile without role, and a session whose profile was not found
ProfileSessions ==
    {<<Null, <<>>>>, <<Null, <<GuestUser>>>>, <<Str("u1"), <<FarmerUser>>>>,
     <<Str("u1"), <<BuyerUser>>>>, <<Str("u1"), <<[FarmerUser EXCEPT !.role = Null]>>>>,
     <<Str("u1"), <<>>>>}

\* imageFile: <<>> for null
ImageFiles ==
    {<<>>, <<[name |-> <<"m", "a", "i", "z", "e", ".", "J", "P", "G">>, type |-> Str("image/jpeg")]>>,
     <<[name |-> <<"p", "h", "o", "t", "o">>, type |-> Str("")]>>}

FilledProduct ==
    [cropName |-> <<" ", "M", "a", "i", "z", "e">>, variety |-> <<>>, quality |-> "top", quantity |-> <<"5", "0">>,
     unit |-> "bag", pricePerUnit |-> <<"1", "0", "0", "0">>, availableFrom |-> todayISO,
     selectedCategoryId |-> Str(""), description |-> <<"d", "r", "y">>,
     farmerLocation |-> <<"M", "b", "a", "l", "e">>, distanceKm |-> <<>>, lat |-> Num(1), lng |-> Num(34),
     imageFile |-> <<>>]

QuantityTexts ==
    {<<"5", "0">>, <<" ", "1", "2", ".", "5", " ">>, <<"1", "e", "3">>, <<>>, <<"0">>, <<"-", "5">>, <<"a", "b", "c">>, <<"I", "n", "f", "i", "n", "i", "t", "y">>,
     <<"1", "2", "k", "g">>, <<"0", ".", "0", "0", "4">>}

PriceTexts == {<<"1", "0", "0", "0">>, <<".", "5">>, <<"0">>, <<"-", "1">>, <<"x">>, <<"I", "n", "f", "i", "n", "i", "t", "y">>, <<>>}

\* what the user can have entered into the modal
ProductForms ==
    {[FilledProduct EXCEPT !.quantity = q, !.imageFile = img] :
        q \in QuantityTexts, img \in ImageFiles}
    \cup {[FilledProduct EXCEPT !.pricePerUnit = p] : p \in PriceTexts}
    \cup {[FilledProduct EXCEPT !.cropName = <<" ", " ">>],
          [FilledProduct EXCEPT !.farmerLocation = <<>>, !.imageFile =
              <<[name |-> <<"m", "a", "i", "z", "e", ".", "J", "P", "G">>, type |-> Str("image/jpeg")]>>],
          [FilledProduct EXCEPT !.availableFrom = Str("")],
          [FilledProduct EXCEPT !.selectedCategoryId = Num(3), !.variety = <<"L", "o", "n", "g", "e", " ", "5">>,
                                !.distanceKm = <<"1", "2">>]}

Stamps == {1, 2}

\* insertError of the insert into farm_produce
InsertErrors ==
    {[code |-> Str("42501"), message |-> <<"p", "e", "r", "m", "i", "s", "s", "i", "o", "n", " ", "d", "e", "n", "i", "e", "d", " ", "f", "o", "r", " ", "t", "a", "b", "l", "e", " ", "f", "a", "r", "m", "_", "p", "r", "o", "d", "u", "c", "e">>],
     [code |-> Str("PGRST204"), message |->
         <<"n", "e", "w", " ", "r", "o", "w", " ", "v", "i", "o", "l", "a", "t", "e", "s", " ", "R", "o", "w", "-", "L", "e", "v", "e", "l", " ", "S", "e", "c", "u", "r", "i", "t", "y", " ", "p", "o", "l", "i", "c", "y">>],
     [code |-> Str("23505"), message |-> <<"d", "u", "p", "l", "i", "c", "a", "t", "e", " ", "k", "e", "y", " ", "v", "a", "l", "u", "e">>],
     [code |-> Null, message |-> <<>>]}

\* an error that was thrown: its message, Null if it has none
ThrownErrors == {Null, Txt(<<"F", "a", "i", "l", "e", "d", " ", "t", "o", " ", "f", "e", "t", "c", "h">>)}

\* uploadError of storage.upload
UploadErrors == {Txt(<<"B", "u", "c", "k", "e", "t", " ", "n", "o", "t", " ", "f", "o", "u", "n", "d">>), Null}

M_not_authenticated == Str("User not authenticated. Please sign in again.")
M_only_farmers == Str("Only farmers can add products.")
M_permission_denied ==
    Str("Permission denied (RLS). Please fix your RLS policies for farm_produce.")
N_row_level_security == <<"r", "o", "w", "-", "l", "e", "v", "e", "l", " ", "s", "e", "c", "u", "r", "i", "t", "y">>
T_Database_Error == <<"D", "a", "t", "a", "b", "a", "s", "e", " ", "E", "r", "r", "o", "r", ":", " ">>
T_Unexpected_Error == <<"U", "n", "e", "x", "p", "e", "c", "t", "e", "d", " ", "E", "r", "r", "o", "r", ":", " ">>
T_Failed_to_save == <<"F", "a", "i", "l", "e", "d", " ", "t", "o", " ", "s", "a", "v", "e", " ", "p", "r", "o", "d", "u", "c", "t">>
T_no_public_url == <<"F", "a", "i", "l", "e", "d", " ", "t", "o", " ", "g", "e", "n", "e", "r", "a", "t", "e", " ", "p", "u", "b", "l", "i", "c", " ", "U", "R", "L", " ", "f", "o", "r", " ", "i", "m", "a", "g", "e", ".">>

\* the text of a message that is a fixed string or an inspected text
TextOf(v) == v[2]

\* the modal error decided by the error code alone
InsertErrorMessage_CodeOnly(e) ==
    IF e.code = Str("42501")
    THEN M_permission_denied
    ELSE Txt(T_Database_Error \o e.message)

\* the modal error for insertError
InsertErrorMessage(e) ==
    IF e.code = Str("42501") \/ includes(toLowerCase(e.message), N_row_level_security)
    THEN M_permission_denied
    ELSE Txt(T_Database_Error \o e.message)

\* the modal error of the catch block for a thrown err with err?.message = message
UnexpectedErrorMessage(message) ==
    Txt(T_Unexpected_Error \o Or(message, Txt(T_Failed_to_save))[2])

\* saveProduct() up to its first await
ProfileSaveProduct(stamp) ==
    /\ page = "profile"
    /\ f_pc = "idle"
    /\ f_showAddModal
    /\ f_saves < MaxSaves
    /\ f_saves' = f_saves + 1
    /\ f_formAtSave' = <<f_form>>
    /\ f_raised' = NoError
    /\ IF f_user = <<>> \/ Falsy(f_authUserId)
       THEN /\ f_modalError' = M_not_authenticated
            /\ f_result' = "rejected"
            /\ UNCHANGED <<f_savingProduct, f_pc, f_calls, f_photoUrl>>
       ELSE IF ProfileRole(f_user) # T_farmer
       THEN /\ f_modalError' = M_only_farmers
            /\ f_result' = "rejected"
            /\ UNCHANGED <<f_savingProduct, f_pc, f_calls, f_photoUrl>>
       ELSE IF SaveValidationError(f_form) # Null
       THEN /\ f_modalError' = SaveValidationError(f_form)
            /\ f_savingProduct' = FALSE
            /\ f_result' = "rejected"
            /\ UNCHANGED <<f_pc, f_calls, f_photoUrl>>
       ELSE /\ f_modalError' = Null
            /\ f_savingProduct' = TRUE
            /\ f_result' = "pending"
            /\ f_photoUrl' = Null
            /\ IF f_form.imageFile # <<>>
               THEN /\ f_pc' = "upload"
                    /\ f_calls' = Append(f_calls,
                          UploadCall(f_form.imageFile[1], f_authUserId, stamp))
               ELSE /\ f_pc' = "insert"
                    /\ f_calls' = Append(f_calls,
                          InsertCall(SavePayload(f_form, f_user, f_authUserId, Null)))
    /\ UNCHANGED <<notProfile, page, f_authUserId, f_user, f_form, f_showAddModal,
                   f_success>>

\* uploadProduceImage() after the upload: outcome "ok", "error" (uploadError is thrown)
\* or "nourl" (no public URL); then the insert is sent, or the catch block runs
ProfileUploadDone(outcome, uploadError) ==
    /\ page = "profile"
    /\ f_pc = "upload"
    /\ IF outcome = "ok"
       THEN /\ f_photoUrl' = PublicUrl(f_calls[Len(f_calls)].path)
            /\ f_calls' = Append(f_calls, InsertCall(
                  SavePayload(f_formAtSave[1], f_user, f_authUserId,
                              PublicUrl(f_calls[Len(f_calls)].path))))
            /\ f_pc' = "insert"
            /\ UNCHANGED <<f_modalError, f_savingProduct, f_result, f_raised>>
       ELSE /\ f_modalError' = UnexpectedErrorMessage(
                  IF outcome = "error" THEN uploadError ELSE Txt(T_no_public_url))
            /\ f_savingProduct' = FALSE
            /\ f_pc' = "idle"
            /\ f_result' = IF outcome = "error" THEN "uploadFailed" ELSE "urlFailed"
            /\ f_raised' = IF outcome = "error"
                            THEN [kind |-> "upload", message |-> uploadError]
                            ELSE [kind |-> "url", message |-> Txt(T_no_public_url)]
            /\ UNCHANGED <<f_photoUrl, f_calls>>
    /\ UNCHANGED <<notProfile, page, f_authUserId, f_user, f_form, f_showAddModal,
                   f_success, f_formAtSave, f_saves>>

\* the insert returned { error: insertError }
ProfileInsertError(insertError) ==
    /\ page = "profile"
    /\ f_pc = "insert"
    /\ f_modalError' = InsertErrorMessage(insertError)
    /\ f_savingProduct' = FALSE
    /\ f_pc' = "idle"
    /\ f_result' = "insertError"
    /\ f_raised' = [kind |-> "insert", error |-> insertError]
    /\ UNCHANGED <<notProfile, page, f_authUserId, f_user, f_form, f_showAddModal,
                   f_success, f_calls, f_photoUrl, f_formAtSave, f_saves>>

\* the insert returned no error: closeAddModal() and loadAll() is called
ProfileInsertOk ==
    /\ page = "profile"
    /\ f_pc = "insert"
    /\ f_savingProduct' = FALSE
    /\ f_showAddModal' = FALSE
    /\ f_form' = ResetForm
    /\ f_modalError' = Null
    /\ f_pc' = "loadAll"
    /\ f_calls' = Append(f_calls, [op |-> "loadAll"])
    /\ f_result' = "saved"
    /\ UNCHANGED <<notProfile, page, f_authUserId, f_user, f_success, f_photoUrl, f_raised,
                   f_formAtSave, f_saves>>

\* the insert or loadAll() threw: the catch block
ProfileThrow(message) ==
    /\ page = "profile"
    /\ f_pc \in {"insert", "loadAll"}
    /\ f_modalError' = UnexpectedErrorMessage(message)
    /\ f_savingProduct' = FALSE
    /\ f_pc' = "idle"
    /\ f_result' = IF f_pc = "insert" THEN "threw" ELSE f_result
    /\ f_raised' = [kind |-> "thrown", message |-> message]
    /\ UNCHANGED <<notProfile, page, f_authUserId, f_user, f_form, f_showAddModal,
                   f_success, f_calls, f_photoUrl, f_formAtSave, f_saves>>

\* loadAll() returned: setSuccess
ProfileLoadAllDone ==
    /\ page = "profile"
    /\ f_pc = "loadAll"
    /\ f_success' = Str("Product added successfully")
    /\ f_pc' = "idle"
    /\ UNCHANGED <<notProfile, page, f_authUserId, f_user, f_form, f_showAddModal,
                   f_savingProduct, f_modalError, f_calls, f_photoUrl, f_result, f_raised,
                   f_formAtSave, f_saves>>

\* the modal is rendered: showAddModal && role === 'farmer'
ModalShown == f_showAddModal /\ f_user # <<>> /\ ProfileRole(f_user) = T_farmer

\* closeAddModal() from the backdrop, the close (X) button or the Cancel button, which is
\* disabled while savingProduct
ProfileCloseModal(control) ==
    /\ page = "profile"
    /\ ModalShown
    /\ control = "cancel" => ~f_savingProduct
    /\ f_showAddModal' = FALSE
    /\ f_form' = ResetForm
    /\ f_modalError' = Null
    /\ UNCHANGED <<notProfile, page, f_authUserId, f_user, f_savingProduct, f_success,
                   f_pc, f_calls, f_photoUrl, f_result, f_raised, f_formAtSave, f_saves>>

InitProfile ==
    /\ page = "profile"
    /\ BackendInit /\ db = [id \in Ids |-> 0] /\ ordered
    /\ HomeIdle /\ ProductsIdle /\ DetailIdle /\ LoginIdle /\ SignUpIdle /\ MarketIdle /\ ExtraIdle
    /\ \E session \in ProfileSessions : f_authUserId = session[1] /\ f_user = session[2]
    /\ f_form \in ProductForms
    /\ f_showAddModal = TRUE
    /\ f_savingProduct = FALSE
    /\ f_modalError = Null
    /\ f_success = Null
    /\ f_pc = "idle"
    /\ f_calls = <<>>
    /\ f_photoUrl = Null
    /\ f_result = "none"
    /\ f_raised = NoError
    /\ f_formAtSave = <<>>
    /\ f_saves = 0

NextProfile ==
    \/ \E stamp \in Stamps : ProfileSaveProduct(stamp)
    \/ \E outcome \in {"ok", "error", "nourl"}, e \in UploadErrors :
          ProfileUploadDone(outcome, e)
    \/ \E e \in InsertErrors : ProfileInsertError(e)
    \/ ProfileInsertOk
    \/ \E message \in ThrownErrors : ProfileThrow(message)
    \/ ProfileLoadAllDone
    \/ \E control \in {"backdrop", "x", "cancel"} : ProfileCloseModal(control)

SpecProfile == InitProfile /\ [][NextProfile]_vars

----------------------------------------------------------------------------
(* MarketplacePage (app/marketplace/page.tsx): the listing selector and Send Offer *)

\* farm_produce rows of the signed-in farmer (ListingRow)
Listing(id, crop, quantity, price) ==
    [id |-> id, farmer_id |-> Str("u1"), crop_name |-> Str(crop), quantity |-> Num(quantity),
     unit |-> Str("kg"), price_per_unit |-> Num(price), is_available |-> Bool(TRUE)]

\* what the query for the farmer's available listings can return: nothing, one or two
\* rows in either order, and the first row with another quantity and price
ListingLists ==
    {<<>>,
     <<Listing("l1", "Maize", 50, 1000)>>,
     <<Listing("l2", "Beans", 20, 3500)>>,
     <<Listing("l1", "Maize", 50, 1000), Listing("l2", "Beans", 20, 3500)>>,
     <<Listing("l2", "Beans", 20, 3500), Listing("l1", "Maize", 40, 1200)>>}

ListingIds == {"l1", "l2"}
DemandIds == {"d1", "d2"}

\* a selector that always offers the first listing
selectedListing_First(listings, selectedListingId) ==
    IF listings # <<>> THEN <<listings[1]>> ELSE <<>>

\* selectedListing = listings.find(l => l.id === selectedListingId) || listings[0];
\* <<>> for undefined
selectedListing(listings, selectedListingId) ==
    IF \E i \in 1..Len(listings) : Str(listings[i].id) = selectedListingId
    THEN <<listings[CHOOSE i \in 1..Len(listings) :
                /\ Str(listings[i].id) = selectedListingId
                /\ \A j \in 1..(i - 1) : Str(listings[j].id) # selectedListingId]>>
    ELSE IF listings # <<>> THEN <<listings[1]>> ELSE <<>>

\* the record handleSendOffer inserts into demand_offers
OfferRecord(demandId, listing, authId) ==
    [demand_id |-> demandId,
     listing_id |-> listing.id,
     farmer_id |-> authId,
     farmer_name |-> "Farmer",
     crop_name |-> listing.crop_name,
     offered_quantity |-> listing.quantity,
     offered_price_per_unit |-> listing.price_per_unit,
     status |-> "sent"]

\* the user picks a listing in the selector
MarketSelect(id) ==
    /\ page = "market"
    /\ \E i \in 1..Len(m_listings) : m_listings[i].id = id
    /\ m_selectedListingId' = Str(id)
    /\ UNCHANGED <<notMarket, page, m_authId, m_listings, m_inserts, m_pending, m_clicks,
                   m_alert, m_pushed>>

\* the farm_produce handler of channel marketplace-realtime: its query returned data
MarketListingsRefreshed(data) ==
    /\ page = "market"
    /\ m_authId # Null
    /\ data # m_listings
    /\ m_listings' = data
    /\ UNCHANGED <<notMarket, page, m_authId, m_selectedListingId, m_inserts, m_pending,
                   m_clicks, m_alert, m_pushed>>

\* handleSendOffer(demandId) up to its await
MarketSendOffer(demandId) ==
    /\ page = "market"
    /\ m_clicks < MaxClicks
    /\ m_clicks' = m_clicks + 1
    /\ IF Falsy(m_authId)
       THEN /\ m_alert' = "Please login to send offers"
            /\ m_pushed' = Append(m_pushed, "/login")
            /\ UNCHANGED <<m_inserts, m_pending>>
       ELSE IF selectedListing(m_listings, m_selectedListingId) = <<>>
       THEN /\ m_alert' = "Please select a listing first"
            /\ UNCHANGED <<m_inserts, m_pending, m_pushed>>
       ELSE /\ m_inserts' = Append(m_inserts,
                  OfferRecord(demandId,
                              selectedListing(m_listings, m_selectedListingId)[1],
                              m_authId))
            /\ m_pending' = m_pending + 1
            /\ UNCHANGED <<m_alert, m_pushed>>
    /\ UNCHANGED <<notMarket, page, m_authId, m_listings, m_selectedListingId>>

\* handleSendOffer after the await: the insert returned, with an error or without
MarketInsertDone(failed) ==
    /\ page = "market"
    /\ m_pending > 0
    /\ m_pending' = m_pending - 1
    /\ m_alert' = IF failed THEN "Failed to send offer" ELSE "Offer sent successfully!"
    /\ UNCHANGED <<notMarket, page, m_authId, m_listings, m_selectedListingId, m_inserts,
                   m_clicks, m_pushed>>

InitMarket ==
    /\ page = "market"
    /\ BackendInit /\ db = [id \in Ids |-> 0] /\ ordered
    /\ HomeIdle /\ ProductsIdle /\ DetailIdle /\ LoginIdle /\ SignUpIdle /\ ProfileIdle /\ ExtraIdle
    /\ m_authId \in {Null, Str("u1")}
    /\ m_listings \in IF m_authId = Null THEN {<<>>} ELSE ListingLists
    /\ m_selectedListingId = Null
    /\ m_inserts = <<>>
    /\ m_pending = 0
    /\ m_clicks = 0
    /\ m_alert = ""
    /\ m_pushed = <<>>

NextMarket ==
    \/ \E id \in ListingIds : MarketSelect(id)
    \/ \E data \in ListingLists : MarketListingsRefreshed(data)
    \/ \E demandId \in DemandIds : MarketSendOffer(demandId)
    \/ \E failed \in BOOLEAN : MarketInsertDone(failed)

SpecMarket == InitMarket /\ [][NextMarket]_vars

----------------------------------------------------------------------------
(* HomePage (app/page.tsx): the filter controls and the filtered list *)

\* `${v}` of a template literal
TemplateString(v) ==
    CASE v[1] = "txt" -> v[2]
      [] v[1] = "null" -> <<"n", "u", "l", "l">>
      [] OTHER -> <<>>

\* a number in thousandths
Milli(n) == IF n[1] = "num" THEN n[2] * 1000 ELSE n[2]

\* hay without lower-casing
Haystack_CaseSensitive(p) ==
    TemplateString(p.crop_name) \o <<" ">> \o TemplateString(Or(p.variety, Txt(<<>>)))
        \o <<" ">> \o TemplateString(p.farmer_location) \o <<" ">>
        \o TemplateString(p.farmer_name)

\* hay
Haystack(p) ==
    toLowerCase(
        TemplateString(p.crop_name) \o <<" ">> \o TemplateString(Or(p.variety, Txt(<<>>)))
            \o <<" ">> \o TemplateString(p.farmer_location) \o <<" ">>
            \o TemplateString(p.farmer_name))

\* safeNumber(p.price_per_unit, 0) <= mp
PriceWithin(p, maxPrice) ==
    Milli(safeNumber(p.price_per_unit, Num(0))) <= Milli(safeNumber(maxPrice, Num(0)))

\* new Date(listed_at).getTime(), 0 without listed_at
ListedTime(p) == IF Falsy(p.listed_at) THEN 0 ELSE p.listed_at[2]

Sign(n) == IF n < 0 THEN -1 ELSE IF n > 0 THEN 1 ELSE 0

\* the comparator of rows.sort: the sign of its result (NaN counts as 0)
Compare(sort, a, b) ==
    CASE sort = "price_low" ->
            Sign(Milli(safeNumber(a.price_per_unit, Num(0)))
                 - Milli(safeNumber(b.price_per_unit, Num(0))))
      [] sort = "price_high" ->
            Sign(Milli(safeNumber(b.price_per_unit, Num(0)))
                 - Milli(safeNumber(a.price_per_unit, Num(0))))
      [] sort = "newest" -> Sign(ListedTime(b) - ListedTime(a))
      [] OTHER ->
            IF a.distance_km = Null /\ b.distance_km = Null THEN 0
            ELSE IF a.distance_km = Null THEN 1
            ELSE IF b.distance_km = Null THEN -1
            ELSE Sign(Milli(safeNumber(a.distance_km, Num(0)))
                      - Milli(safeNumber(b.distance_km, Num(0))))

\* an insertion that puts x before the rows it compares equal to
RECURSIVE InsertSorted_BeforeEqual(_, _, _)
InsertSorted_BeforeEqual(sorted, x, sort) ==
    IF sorted = <<>> THEN <<x>>
    ELSE IF Compare(sort, Head(sorted), x) < 0
         THEN <<Head(sorted)>> \o InsertSorted_BeforeEqual(Tail(sorted), x, sort)
         ELSE <<x>> \o sorted

\* Array.prototype.sort is stable: x, which came after the rows of sorted in the
\* input, goes behind every row that does not compare greater
RECURSIVE InsertSorted(_, _, _)
InsertSorted(sorted, x, sort) ==
    IF sorted = <<>> THEN <<x>>
    ELSE IF Compare(sort, Head(sorted), x) <= 0
         THEN <<Head(sorted)>> \o InsertSorted(Tail(sorted), x, sort)
         ELSE <<x>> \o sorted

\* rows.sort(comparator)
RECURSIVE SortRows(_, _)
SortRows(rows, sort) ==
    IF rows = <<>> THEN <<>>
    ELSE InsertSorted(SortRows(SubSeq(rows, 1, Len(rows) - 1), sort), rows[Len(rows)], sort)

\* the rows of filtered before rows.sort
FilteredRows(products, query, quality, maxPrice) ==
    LET q == toLowerCase(trim(query))
        Matches(p) == includes(Haystack(p), q)
        HasQuality(p) == p.quality = Txt(quality)
        Within(p) == PriceWithin(p, maxPrice)
        rows1 == IF q # <<>> THEN SelectSeq(products, Matches) ELSE products
        rows2 == IF quality # T_all THEN SelectSeq(rows1, HasQuality) ELSE rows1
    IN IF maxPrice # Str("") THEN SelectSeq(rows2, Within) ELSE rows2

\* filtered
filtered == SortRows(FilteredRows(h_products, h_query, h_quality, h_maxPrice), h_sort)

\* farm_produce rows (the selected columns) as the backend stores them
CatalogRow(id, crop, variety, farmer, location, quality, price, listed, distance) ==
    [id |-> Str(id), crop_name |-> Txt(crop), variety |-> variety, quality |-> Txt(quality),
     price_per_unit |-> price, quantity |-> Num(10), unit |-> Str("kg"),
     farmer_name |-> Txt(farmer), farmer_location |-> Txt(location),
     distance_km |-> distance, listed_at |-> listed, is_available |-> Bool(TRUE),
     photo |-> Null]

Catalog ==
    {CatalogRow("c1", <<"C", "o", "f", "f", "e", "e">>, Null, <<"A", "m", "i", "n", "a">>, <<"M", "b", "a", "l", "e">>, T_top, Num(1000), Ts(3),
                Num(12)),
     CatalogRow("c2", <<"M", "a", "i", "z", "e">>, Txt(<<"L", "o", "n", "g", "e", " ", "5">>), <<"J", "o", "h", "n">>, <<"G", "u", "l", "u">>, T_Top, Num(5000),
                Ts(1), Null),
     CatalogRow("c3", <<"m", "a", "i", "z", "e">>, Null, <<"A", "M", "I", "N", "A", " ", "K">>, <<"G", "u", "l", "u">>, T_fair, Null, Null,
                Num(3)),
     CatalogRow("c4", <<"B", "e", "a", "n", "s">>, Txt(<<"K", "1", "3", "2">>), <<"O", "k", "e", "l", "l", "o">>, <<"L", "i", "r", "a">>, T_standard,
                Num(5000), Ts(1), Null)}

\* the lists of up to MaxRows distinct rows
CatalogLists ==
    {l \in UNION {[1..n -> Catalog] : n \in 0..MaxRows} :
        \A i, j \in 1..Len(l) : i # j => l[i].id # l[j].id}

\* what the user can type into the search box and into the max price field
QueryTexts == {<<>>, <<" ", " ">>, <<"a", "m", "i", "n", "a">>, <<" ", "A", "M", "I", "N", "A", " ">>, <<"m", "a", "i", "z", "e", " ", "l", "o", "n", "g", "e">>}
MaxPriceTexts == {<<>>, <<"5", "0", "0", "0">>, <<"0">>, <<"9", "9", "9", ".", "5">>, <<"a", "b", "c">>, <<"I", "n", "f", "i", "n", "i", "t", "y">>}
Qualities == {T_all, T_top, T_standard, T_fair}
SortKeys == {"distance", "price_low", "price_high", "newest"}

\* onChange of the search box
HomeSetQuery(text) ==
    /\ page = "home"
    /\ h_query' = text
    /\ UNCHANGED <<notHome, page, backendVars, h_products, h_loading, h_err, h_alive, h_load,
                   h_snap, h_ev, h_prev, h_last, h_newest, h_quality, h_maxPrice, h_sort>>

\* onChange of the quality selector
HomeSetQuality(q) ==
    /\ page = "home"
    /\ h_quality' = q
    /\ UNCHANGED <<notHome, page, backendVars, h_products, h_loading, h_err, h_alive, h_load,
                   h_snap, h_ev, h_prev, h_last, h_newest, h_query, h_maxPrice, h_sort>>

\* onChange of the max price field with e.target.value = v
HomeSetMaxPrice(v) ==
    /\ page = "home"
    /\ h_maxPrice' = IF v = <<>> THEN Str("")
                     ELSE IF StringToNumber(v) = NaN THEN h_maxPrice
                     ELSE StringToNumber(v)
    /\ UNCHANGED <<notHome, page, backendVars, h_products, h_loading, h_err, h_alive, h_load,
                   h_snap, h_ev, h_prev, h_last, h_newest, h_query, h_quality, h_sort>>

\* onChange of the sort selector
HomeSetSort(k) ==
    /\ page = "home"
    /\ h_sort' = k
    /\ UNCHANGED <<notHome, page, backendVars, h_products, h_loading, h_err, h_alive, h_load,
                   h_snap, h_ev, h_prev, h_last, h_newest, h_query, h_quality, h_maxPrice>>

\* the Reset button
HomeResetFilters ==
    /\ page = "home"
    /\ h_query' = <<>>
    /\ h_quality' = T_all
    /\ h_maxPrice' = Str("")
    /\ h_sort' = "distance"
    /\ UNCHANGED <<notHome, page, backendVars, h_products, h_loading, h_err, h_alive, h_load,
                   h_snap, h_ev, h_prev, h_last, h_newest>>

\* the Home page once loaded: the rows came from the initial fetch or from realtime
\* events
InitHomeFilter ==
    /\ page = "home"
    /\ BackendInit /\ db = [id \in Ids |-> 0] /\ ordered
    /\ \E l \in CatalogLists :
           h_products \in {MapAll(l), [i \in 1..Len(l) |-> Normalize(l[i])]}
    /\ h_loading = FALSE
    /\ h_err = Null
    /\ h_alive = TRUE
    /\ h_load = "done"
    /\ h_snap = <<>>
    /\ h_ev = NoEvent
    /\ h_prev = <<>>
    /\ h_last = [id \in Ids |-> NoEvent]
    /\ h_newest = [id \in Ids |-> 0]
    /\ h_query = <<>>
    /\ h_quality = T_all
    /\ h_maxPrice = Str("")
    /\ h_sort = "distance"
    /\ ProductsIdle /\ DetailIdle /\ LoginIdle /\ SignUpIdle /\ ProfileIdle /\ MarketIdle /\ ExtraIdle

NextHomeFilter ==
    \/ \E text \in QueryTexts : HomeSetQuery(text)
    \/ \E q \in Qualities : HomeSetQuality(q)
    \/ \E v \in MaxPriceTexts : HomeSetMaxPrice(v)
    \/ \E k \in SortKeys : HomeSetSort(k)
    \/ HomeResetFilters

SpecHomeFilter == InitHomeFilter /\ [][NextHomeFilter]_vars

----------------------------------------------------------------------------
(* ProductsPage: the filter controls and filteredProducts *)

T_vegetable == <<"v", "e", "g", "e", "t", "a", "b", "l", "e">>
T_legume == <<"l", "e", "g", "u", "m", "e">>

\* the order of the characters drawn under the default collation: space, digits, letters
CollationOrder ==
    <<" ", "0", "1", "2", "3", "4", "5", "6", "7", "8", "9">> \o LowerCase

CollationRank(c) ==
    IF \E i \in 1..Len(CollationOrder) : CollationOrder[i] = LowerChar(c)
    THEN CHOOSE i \in 1..Len(CollationOrder) : CollationOrder[i] = LowerChar(c)
    ELSE 0

\* a.localeCompare(b): the sign; letters compare without case first, and texts equal up to
\* case put the lower-case letter first
localeCompare(a, b) ==
    LET n == IF Len(a) < Len(b) THEN Len(a) ELSE Len(b)
        d1 == {i \in 1..n : CollationRank(a[i]) # CollationRank(b[i])}
        d3 == {i \in 1..n : a[i] # b[i]}
        First(d) == CHOOSE i \in d : \A j \in d : i <= j
    IN IF d1 # {}
       THEN IF CollationRank(a[First(d1)]) < CollationRank(b[First(d1)]) THEN -1 ELSE 1
       ELSE IF Len(a) # Len(b) THEN IF Len(a) < Len(b) THEN -1 ELSE 1
       ELSE IF d3 = {} THEN 0
       ELSE IF LowerChar(a[First(d3)]) = a[First(d3)] THEN -1 ELSE 1

\* (v || '') of a text column
TextOrEmpty(v) == Or(v, Txt(<<>>))[2]

\* a category test without the crop name
matchesCategory_CategoryOnly(p, selectedCategory) ==
    \/ selectedCategory = T_all
    \/ toLowerCase(TextOrEmpty(p.crop_category)) = selectedCategory

\* matchesCategory
matchesCategory(p, selectedCategory) ==
    \/ selectedCategory = T_all
    \/ toLowerCase(TextOrEmpty(p.crop_category)) = selectedCategory
    \/ includes(toLowerCase(TextOrEmpty(p.crop_name)), selectedCategory)

\* matchesSearch
matchesSearch(p, q) ==
    \/ q = <<>>
    \/ includes(toLowerCase(TextOrEmpty(p.crop_name)), q)
    \/ includes(toLowerCase(TextOrEmpty(p.farmer_name)), q)
    \/ includes(toLowerCase(TextOrEmpty(p.farmer_location)), q)
    \/ includes(toLowerCase(TextOrEmpty(p.crop_category)), q)

\* new Date(listed_at).getTime(); new Date(null) is the epoch
ProductsListedTime(p) == IF p.listed_at = Null THEN 0 ELSE p.listed_at[2]

\* the comparator of filtered.sort: the sign of its result
ProductsCompare(sortBy, a, b) ==
    CASE sortBy = "price-low" ->
            Sign(Milli(Or(a.price_per_unit, Num(0))) - Milli(Or(b.price_per_unit, Num(0))))
      [] sortBy = "price-high" ->
            Sign(Milli(Or(b.price_per_unit, Num(0))) - Milli(Or(a.price_per_unit, Num(0))))
      [] sortBy = "name" ->
            localeCompare(TextOrEmpty(a.crop_name), TextOrEmpty(b.crop_name))
      [] OTHER -> Sign(ProductsListedTime(b) - ProductsListedTime(a))

\* filtered.sort is stable: x, which came after the rows of sorted in the input, goes
\* behind every row that does not compare greater
RECURSIVE ProductsInsert(_, _, _)
ProductsInsert(sorted, x, sortBy) ==
    IF sorted = <<>> THEN <<x>>
    ELSE IF ProductsCompare(sortBy, Head(sorted), x) <= 0
         THEN <<Head(sorted)>> \o ProductsInsert(Tail(sorted), x, sortBy)
         ELSE <<x>> \o sorted

\* filtered.sort(comparator)
RECURSIVE ProductsSort(_, _)
ProductsSort(rows, sortBy) ==
    IF rows = <<>> THEN <<>>
    ELSE ProductsInsert(ProductsSort(SubSeq(rows, 1, Len(rows) - 1), sortBy),
                        rows[Len(rows)], sortBy)

\* filteredProducts
filteredProducts ==
    LET q == toLowerCase(trim(p_search))
        Keep(p) == matchesSearch(p, q) /\ matchesCategory(p, p_selectedCategory)
    IN ProductsSort(SelectSeq(p_products, Keep), p_sortBy)

\* farm_produce rows as the backend stores them
ProduceRow(id, crop, category, farmer, location, price, listed) ==
    WithId(Str(id),
           [Templates[1] EXCEPT !.crop_name = Txt(crop), !.crop_category = category,
                                !.farmer_name = Txt(farmer),
                                !.farmer_location = Txt(location),
                                !.price_per_unit = price, !.listed_at = listed,
                                !.quality = Txt(T_standard)])

ProduceCatalog ==
    {ProduceRow("p1", <<"M", "a", "i", "z", "e">>, Txt(T_Grain), <<"A", "m", "i", "n", "a">>, <<"M", "b", "a", "l", "e">>, Num(1000), Ts(2)),
     ProduceRow("p2", <<"G", "r", "a", "i", "n", " ", "a", "m", "a", "r", "a", "n", "t", "h">>, Txt(T_vegetable), <<"J", "o", "h", "n">>, <<"G", "u", "l", "u">>,
                Num(5000), Ts(1)),
     ProduceRow("p3", <<"B", "e", "a", "n", "s">>, Txt(T_legume), <<"G", "r", "a", "c", "e">>, <<"L", "i", "r", "a">>, Num(1000), Ts(3)),
     ProduceRow("p4", <<"m", "a", "i", "z", "e">>, Null, <<"O", "k", "e", "l", "l", "o">>, <<"G", "u", "l", "u">>, Null, Ts(1))}

\* the lists of up to MaxRows distinct rows
ProduceLists ==
    {l \in UNION {[1..n -> ProduceCatalog] : n \in 0..MaxRows} :
        \A i, j \in 1..Len(l) : i # j => l[i].id # l[j].id}

\* what the user can type into the search box, and the category and sort buttons drawn
SearchTexts == {<<>>, <<" ">>, <<"g", "u", "l", "u">>, <<" ", "G", "R", "A", "I", "N">>, <<"a", "m", "i", "n", "a">>}
Categories == {T_all, T_grain, T_vegetable, T_legume, T_other}
SortOptions == {"newest", "price-low", "price-high", "name"}

\* onChange of the search box
ProductsSetSearch(text) ==
    /\ page = "products"
    /\ p_search' = text
    /\ UNCHANGED <<notProducts, page, backendVars, p_products, p_loading, p_active, p_fetch,
                   p_snap, p_selectedCategory, p_sortBy>>

\* onClick of a category button
ProductsSetCategory(c) ==
    /\ page = "products"
    /\ p_selectedCategory' = c
    /\ UNCHANGED <<notProducts, page, backendVars, p_products, p_loading, p_active, p_fetch,
                   p_snap, p_search, p_sortBy>>

\* onClick of a sort option
ProductsSetSortBy(k) ==
    /\ page = "products"
    /\ p_sortBy' = k
    /\ UNCHANGED <<notProducts, page, backendVars, p_products, p_loading, p_active, p_fetch,
                   p_snap, p_search, p_selectedCategory>>

\* the Reset Filters button of the empty list
ProductsResetFilters ==
    /\ page = "products"
    /\ Len(filteredProducts) = 0
    /\ p_search' = <<>>
    /\ p_selectedCategory' = T_all
    /\ UNCHANGED <<notProducts, page, backendVars, p_products, p_loading, p_active, p_fetch,
                   p_snap, p_sortBy>>

\* the Products page once the fetch has answered with rows
InitProductsFilter ==
    /\ page = "products"
    /\ BackendInit /\ db = [id \in Ids |-> 0] /\ ordered
    /\ p_products \in ProduceLists
    /\ p_snap = p_products
    /\ p_loading = FALSE
    /\ p_active = TRUE
    /\ p_fetch = "done"
    /\ p_search = <<>>
    /\ p_selectedCategory = T_all
    /\ p_sortBy = "newest"
    /\ HomeIdle /\ DetailIdle /\ LoginIdle /\ SignUpIdle /\ ProfileIdle /\ MarketIdle /\ ExtraIdle

NextProductsFilter ==
    \/ \E text \in SearchTexts : ProductsSetSearch(text)
    \/ \E c \in Categories : ProductsSetCategory(c)
    \/ \E k \in SortOptions : ProductsSetSortBy(k)
    \/ ProductsResetFilters

SpecProductsFilter == InitProductsFilter /\ [][NextProductsFilter]_vars

----------------------------------------------------------------------------
(* The Call and WhatsApp buttons of the Products page and of the product detail page *)

\* s.replace(/[^...]/g, ''): the characters of s that are in keep
KeepChars(s, keep) == SelectSeq(s, LAMBDA c : c \in keep)

\* s.startsWith(c) for a character c
startsWith(s, c) == s # <<>> /\ Head(s) = c

\* s.slice(1)
slice1(s) == IF s = <<>> THEN <<>> ELSE Tail(s)

\* s.replace(c, ''): the first c is taken out
ReplaceFirst(s, c) ==
    IF \E i \in 1..Len(s) : s[i] = c
    THEN LET i == CHOOSE i \in 1..Len(s) : s[i] = c /\ \A j \in 1..(i - 1) : s[j] # c
         IN SubSeq(s, 1, i - 1) \o SubSeq(s, i + 1, Len(s))
    ELSE s

\* safePhone: the trimmed text, <<>> for null
safePhone(phone) ==
    LET p == trim(TextOrEmpty(phone)) IN IF Len(p) > 0 THEN <<p>> ELSE <<>>

T_country == <<"2", "5", "6">>
T_wa_me == <<"h", "t", "t", "p", "s", ":", "/", "/", "w", "a", ".", "m", "e", "/">>
T_tel == <<"t", "e", "l", ":">>

\* a normalisation that replaces every leading zero, whatever the number of digits
normalizeWhatsapp_AnyLength(phone) ==
    LET digits == KeepChars(phone, Digits)
    IN IF startsWith(digits, "0") THEN T_country \o slice1(digits) ELSE digits

\* normalizeWhatsapp
normalizeWhatsapp(phone) ==
    LET digits == KeepChars(phone, Digits)
    IN IF Len(digits) = 10 /\ startsWith(digits, "0")
       THEN T_country \o slice1(digits)
       ELSE digits

\* ProductsPage.handleMessage: the URL opened, <<>> if none
ProductsMessageUrl(phone) ==
    LET p == safePhone(phone)
    IN IF p = <<>> THEN <<>> ELSE <<T_wa_me \o normalizeWhatsapp(p[1])>>

\* ProductsPage.handleCall: the URL opened, <<>> if none
ProductsCallUrl(phone) ==
    LET p == safePhone(phone) IN IF p = <<>> THEN <<>> ELSE <<T_tel \o p[1]>>

\* ProductDetailPage.handleMessageFarmer: the URL opened, <<>> if none
DetailMessageUrl(farmer_phone) ==
    IF Falsy(farmer_phone) THEN <<>>
    ELSE LET phone == KeepChars(farmer_phone[2], Digits \cup {"+"})
         IN IF startsWith(phone, "0")
            THEN <<T_wa_me \o T_country \o slice1(phone)>>
            ELSE <<T_wa_me \o ReplaceFirst(phone, "+")>>

\* ProductDetailPage.handleCallFarmer: the URL opened, <<>> if none
DetailCallUrl(farmer_phone) ==
    IF Falsy(farmer_phone) THEN <<>> ELSE <<T_tel \o farmer_phone[2]>>

\* farmer_phone as farmers have stored it
StoredPhones ==
    {Null, Txt(<<>>), Txt(<<" ", " ">>), Txt(<<"0", "7", "1", "2", "3", "4", "5", "6", "7", "8">>), Txt(<<"+", "2", "5", "6", "7", "1", "2", "3", "4", "5", "6", "7", "8">>),
     Txt(<<"2", "5", "6", "7", "1", "2", "3", "4", "5", "6", "7", "8">>), Txt(<<" ", "0", "7", "1", "2", " ", "3", "4", "5", "-", "6", "7", "8", " ">>), Txt(<<"0", "4", "1", "1", "2", "3", "4", "5", "6">>),
     Txt(<<"0", "7", "1", "2", "3", "4", "5", "6", "7", "8", "9">>), Txt(<<"+", "0", "7", "1", "2", "3", "4", "5", "6", "7", "8">>), Txt(<<"t", "e", "l", " ", "0", "7", "0", "0", "0", "0", "0", "0", "0", "0", " ", "x", "2">>),
     Txt(<<"n", "/", "a">>)}

\* window.open(url) by the handler named
Open(by, url) ==
    /\ Len(w_opened) < MaxOpens
    /\ w_opened' = IF url = <<>> THEN w_opened
                   ELSE Append(w_opened, [by |-> by, url |-> url[1]])
    /\ UNCHANGED <<notExtra, page, w_phone, distVars, discVars, navVars>>

ProductsHandleMessage ==
    page = "contact" /\ Open("ProductsPage.handleMessage", ProductsMessageUrl(w_phone))

ProductsHandleCall ==
    page = "contact" /\ Open("ProductsPage.handleCall", ProductsCallUrl(w_phone))

DetailHandleMessageFarmer ==
    page = "contact" /\ Open("ProductDetailPage.handleMessageFarmer", DetailMessageUrl(w_phone))

DetailHandleCallFarmer ==
    page = "contact" /\ Open("ProductDetailPage.handleCallFarmer", DetailCallUrl(w_phone))

\* one listing, shown by the Products page and by its detail page
InitContact ==
    /\ page = "contact"
    /\ BackendInit /\ db = [id \in Ids |-> 0] /\ ordered
    /\ PagesIdle /\ NavbarIdle
    /\ w_phone \in StoredPhones
    /\ w_opened = <<>>
    /\ DistanceIdle /\ DiscoverIdle

NextContact ==
    \/ ProductsHandleMessage
    \/ ProductsHandleCall
    \/ DetailHandleMessageFarmer
    \/ DetailHandleCallFarmer

SpecContact == InitContact /\ [][NextContact]_vars

----------------------------------------------------------------------------
(* haversineKm (Discover) and calculateDistance (Marketplace)                *)
(* Coordinates are in ten-thousandths of a degree. The floating-point        *)
(* arithmetic is modelled in fixed point: angles and the values of sin, cos  *)
(* and sqrt in units of 1/Unit, the haversine term a in units of 1/Unit^2,   *)
(* the result in metres. Floating-point rounding treats a value and its      *)
(* negation alike; so does the rounding here, which drops the fraction.      *)

\* the fixed-point unit
Unit == 10000

\* R
EarthRadiusKm == 6371

\* a / b with the fraction dropped
Quot(a, b) == IF a < 0 THEN -((-a) \div b) ELSE a \div b

\* deg * Math.PI / 180 for deg in ten-thousandths of a degree: pi/180 = 0.017453
toRadians(deg) == Quot(deg * 17453, 1000000)

\* x / 2
Half(x) == Quot(x, 2)

\* Math.sin(x): x - x^3/6 + x^5/120
sin(x) ==
    LET x2 == Quot(x * x, Unit)
        x3 == Quot(x2 * x, Unit)
        x5 == Quot(Quot(x3 * x, Unit) * x, Unit)
    IN x - Quot(x3, 6) + Quot(x5, 120)

\* Math.cos(x): 1 - x^2/2 + x^4/24
cos(x) ==
    LET x2 == Quot(x * x, Unit)
        x4 == Quot(x2 * x2, Unit)
    IN Unit - Quot(x2, 2) + Quot(x4, 24)

\* the largest r in lo..hi with r * r <= n
RECURSIVE SqrtBetween(_, _, _)
SqrtBetween(n, lo, hi) ==
    IF lo = hi THEN lo
    ELSE LET mid == (lo + hi + 1) \div 2
         IN IF mid * mid <= n THEN SqrtBetween(n, mid, hi) ELSE SqrtBetween(n, lo, mid - 1)

\* Math.sqrt(a) for a in units of 1/Unit^2 (the square root of a negative number is NaN,
\* which no pair of places drawn produces)
sqrt(a) == IF a <= 0 THEN 0 ELSE SqrtBetween(a, 0, 2 * Unit)

\* Math.atan(t) for 0 <= t <= 1: t - t^3/3 + t^5/5
atan(t) ==
    LET t2 == Quot(t * t, Unit)
        t3 == Quot(t2 * t, Unit)
        t5 == Quot(t2 * t3, Unit)
    IN t - Quot(t3, 3) + Quot(t5, 5)

\* Math.atan2(y, x) for y >= 0 and x >= 0; pi/2 = 1.5708
atan2(y, x) ==
    IF y = 0 THEN 0
    ELSE IF y <= x THEN atan(Quot(y * Unit, x))
    ELSE 15708 - atan(Quot(x * Unit, y))

\* a distance with the second latitude left out of the cosine term
haversineKm_OneLatitude(lat1, lon1, lat2, lon2) ==
    LET dLat == toRadians(lat2 - lat1)
        dLon == toRadians(lon2 - lon1)
        a == sin(Half(dLat)) * sin(Half(dLat))
             + Quot(Quot(cos(toRadians(lat1)) * cos(toRadians(lat1)), Unit)
                    * sin(Half(dLon)), Unit) * sin(Half(dLon))
        c == 2 * atan2(sqrt(a), sqrt(Unit * Unit - a))
    IN Quot(EarthRadiusKm * c, 10)

\* haversineKm, in metres
haversineKm(lat1, lon1, lat2, lon2) ==
    LET dLat == toRadians(lat2 - lat1)
        dLon == toRadians(lon2 - lon1)
        a == sin(Half(dLat)) * sin(Half(dLat))
             + Quot(Quot(cos(toRadians(lat1)) * cos(toRadians(lat2)), Unit)
                    * sin(Half(dLon)), Unit) * sin(Half(dLon))
        c == 2 * atan2(sqrt(a), sqrt(Unit * Unit - a))
    IN Quot(EarthRadiusKm * c, 10)

\* calculateDistance, in metres
calculateDistance(lat1, lng1, lat2, lng2) ==
    LET dLat == toRadians(lat2 - lat1)
        dLng == toRadians(lng2 - lng1)
        a == sin(Half(dLat)) * sin(Half(dLat))
             + Quot(Quot(cos(toRadians(lat1)) * cos(toRadians(lat2)), Unit)
                    * sin(Half(dLng)), Unit) * sin(Half(dLng))
    IN Quot(EarthRadiusKm * (2 * atan2(sqrt(a), sqrt(Unit * Unit - a))), 10)

\* Kampala, Entebbe, Gulu, Mbale, Kabale, Mbarara: <<latitude, longitude>>
Kampala == <<3476, 325825>>
Places ==
    {Kampala, <<600, 324600>>, <<27746, 322990>>, <<10800, 341800>>, <<-12500, 299900>>,
     <<-6070, 306550>>}

\* the calls: each function, in both orders of the two pairs
DistanceCalls == {"haversineKm", "haversineKm back", "calculateDistance",
                  "calculateDistance back"}

\* one call of a distance function
Measure(call) ==
    /\ page = "distance"
    /\ call \notin DOMAIN k_km
    /\ LET km == CASE call = "haversineKm" ->
                         haversineKm(k_from[1], k_from[2], k_to[1], k_to[2])
                   [] call = "haversineKm back" ->
                         haversineKm(k_to[1], k_to[2], k_from[1], k_from[2])
                   [] call = "calculateDistance" ->
                         calculateDistance(k_from[1], k_from[2], k_to[1], k_to[2])
                   [] OTHER ->
                         calculateDistance(k_to[1], k_to[2], k_from[1], k_from[2])
       IN k_km' = [c \in DOMAIN k_km \cup {call} |-> IF c = call THEN km ELSE k_km[c]]
    /\ UNCHANGED <<notExtra, page, contactVars, discVars, navVars, k_from, k_to>>

InitDistance ==
    /\ page = "distance"
    /\ BackendInit /\ db = [id \in Ids |-> 0] /\ ordered
    /\ PagesIdle /\ NavbarIdle /\ ContactIdle /\ DiscoverIdle
    /\ k_from \in Places
    /\ k_to \in Places
    /\ k_km = [c \in {} |-> Null]

NextDistance == \E call \in DistanceCalls : Measure(call)

SpecDistance == InitDistance /\ [][NextDistance]_vars

----------------------------------------------------------------------------
(* DiscoverClient: the fetch and realtime effect *)

\* .eq('is_available', true).not('location_lat', 'is', null).not('location_lng', 'is', null)
DiscoverIds ==
    {id \in AvailableIds :
        Templates[db[id]].location_lat # Null /\ Templates[db[id]].location_lng # Null}

\* fetchProducts() up to the await: setLoading(true) and the query is sent
DiscoverFetch ==
    /\ g_loading' = TRUE
    /\ g_issued' = g_issued + 1
    /\ g_flights' = [n \in DOMAIN g_flights \cup {g_issued + 1} |->
                        IF n = g_issued + 1 THEN [at |-> "sent", data |-> <<>>]
                        ELSE g_flights[n]]
    /\ g_lastAnswer' = <<>>

\* the backend runs the query of call n and the response is on its way
DiscoverQuery(n) ==
    /\ page = "discover"
    /\ n \in DOMAIN g_flights
    /\ g_flights[n].at = "sent"
    /\ \/ \E rows \in SeqsOf({Row(id, db[id]) : id \in DiscoverIds}) :
            /\ OrderedByListedAt(rows)
            /\ g_flights' = [g_flights EXCEPT ![n] = [at |-> "data", data |-> rows]]
            /\ g_lastAnswer' = IF n = g_issued THEN <<"data", rows>> ELSE g_lastAnswer
       \/ /\ g_flights' = [g_flights EXCEPT ![n] = [at |-> "error", data |-> <<>>]]
          /\ g_lastAnswer' = IF n = g_issued THEN <<"error">> ELSE g_lastAnswer
    /\ UNCHANGED <<notExtra, page, contactVars, distVars, navVars, gfVars, g_rows, g_loading,
                   g_active, g_issued>>

\* fetchProducts() of call n after the await: try, catch and finally
DiscoverResponse(n) ==
    /\ page = "discover"
    /\ n \in DOMAIN g_flights
    /\ g_flights[n].at \in {"data", "error"}
    /\ g_rows' = IF g_flights[n].at = "data" /\ g_active THEN g_flights[n].data ELSE g_rows
    /\ g_loading' = IF g_active THEN FALSE ELSE g_loading
    /\ g_flights' = [m \in DOMAIN g_flights \ {n} |-> g_flights[m]]
    /\ UNCHANGED <<notExtra, page, contactVars, distVars, navVars, gfVars, g_active, g_issued,
                   g_lastAnswer>>

\* the channel delivers one event to the handler: () => fetchProducts()
DiscoverRealtime(i) ==
    /\ page = "discover"
    /\ g_active
    /\ i \in 1..Len(feed)
    /\ ordered => i = 1
    /\ DiscoverFetch
    /\ feed' = RemoveAt(feed, i)
    /\ UNCHANGED <<pageVars, page, db, commits, ordered, idless, contactVars, distVars, navVars,
                   gfVars, g_rows, g_active>>

\* the effect's cleanup: active = false, removeChannel
DiscoverUnmount ==
    /\ page = "discover"
    /\ g_active
    /\ g_active' = FALSE
    /\ feed' = <<>>
    /\ UNCHANGED <<pageVars, page, db, commits, ordered, idless, contactVars, distVars, navVars,
                   gfVars, g_rows, g_loading, g_flights, g_issued, g_lastAnswer>>

\* the page after mount: the effect has called fetchProducts() and subscribed
InitDiscover ==
    /\ page = "discover"
    /\ BackendInit
    /\ PagesIdle /\ NavbarIdle /\ ContactIdle /\ DistanceIdle
    /\ g_rows = <<>>
    /\ g_loading = TRUE
    /\ g_active = TRUE
    /\ g_flights = [n \in {1} |-> [at |-> "sent", data |-> <<>>]]
    /\ g_issued = 1
    /\ g_lastAnswer = <<>>
    /\ g_userLoc = <<>>
    /\ g_geoError = Null
    /\ g_radiusKm = DefaultRadiusKm
    /\ g_search = <<>>

NextDiscover ==
    \/ Backend
    \/ \E n \in 1..(MaxCommits + 1) : DiscoverQuery(n)
    \/ \E n \in 1..(MaxCommits + 1) : DiscoverResponse(n)
    \/ \E i \in 1..MaxCommits : DiscoverRealtime(i)
    \/ DiscoverUnmount

SpecDiscover == InitDiscover /\ [][NextDiscover]_vars

----------------------------------------------------------------------------
(* DiscoverClient: makePin, the filter controls and pins *)

\* a coordinate in ten-thousandths of a degree
Deg(n) == <<"deg", n>>

\* the coordinate as the distance functions take it
DegOf(v) == IF v[1] = "num" THEN v[2] * 10000 ELSE v[2]

\* a distance in metres
Metres(n) == <<"m", n>>

T_Produce == <<"P", "r", "o", "d", "u", "c", "e">>
T_Unknown_Farmer == <<"U", "n", "k", "n", "o", "w", "n", " ", "F", "a", "r", "m", "e", "r">>
T_Uganda == <<"U", "g", "a", "n", "d", "a">>

\* makePin: <<>> for null; userLoc is <<>> when userLat and userLng are null
makePin(row, userLoc) ==
    IF row.location_lat = Null \/ row.location_lng = Null \/ Falsy(row.is_available)
    THEN <<>>
    ELSE <<[id |-> row.id,
            crop_name |-> Or(row.crop_name, Txt(T_Produce)),
            crop_category |-> Txt(toLowerCase(Or(row.crop_category, Txt(T_other))[2])),
            quality |-> Txt(toLowerCase(Or(row.quality, Txt(T_standard))[2])),
            farmer_name |-> Or(row.farmer_name, Txt(T_Unknown_Farmer)),
            farmer_location |-> Or(row.farmer_location, Txt(T_Uganda)),
            lat |-> row.location_lat,
            lng |-> row.location_lng,
            distanceKm |->
                IF userLoc # <<>>
                THEN Metres(haversineKm(userLoc[1], userLoc[2], DegOf(row.location_lat),
                                        DegOf(row.location_lng)))
                ELSE Null]>>

\* a radius test that hides the listings without a distance
matchesRadius_NullHidden(p, radiusKm) ==
    p.distanceKm # Null /\ p.distanceKm[2] <= radiusKm * 1000

\* matchesRadius
matchesRadius(p, radiusKm) ==
    p.distanceKm = Null \/ p.distanceKm[2] <= radiusKm * 1000

\* matchesSearch of pins
pinMatchesSearch(p, q) ==
    \/ q = <<>>
    \/ includes(toLowerCase(p.crop_name[2]), q)
    \/ includes(toLowerCase(p.farmer_name[2]), q)
    \/ includes(toLowerCase(p.farmer_location[2]), q)
    \/ includes(toLowerCase(p.crop_category[2]), q)

\* the comparator of filtered.sort: the sign of (a.distanceKm ?? Infinity) -
\* (b.distanceKm ?? Infinity); Infinity - Infinity is NaN, which sort takes as 0
pinCompare(a, b) ==
    IF a.distanceKm = Null /\ b.distanceKm = Null THEN 0
    ELSE IF a.distanceKm = Null THEN 1
    ELSE IF b.distanceKm = Null THEN -1
    ELSE Sign(a.distanceKm[2] - b.distanceKm[2])

RECURSIVE pinInsert(_, _)
pinInsert(sorted, x) ==
    IF sorted = <<>> THEN <<x>>
    ELSE IF pinCompare(Head(sorted), x) <= 0
         THEN <<Head(sorted)>> \o pinInsert(Tail(sorted), x)
         ELSE <<x>> \o sorted

\* filtered.sort(comparator)
RECURSIVE pinSort(_)
pinSort(ps) ==
    IF ps = <<>> THEN <<>>
    ELSE pinInsert(pinSort(SubSeq(ps, 1, Len(ps) - 1)), ps[Len(ps)])

\* rows.map(makePin).filter(Boolean)
RECURSIVE mappedPins(_, _)
mappedPins(rows, userLoc) ==
    IF rows = <<>> THEN <<>>
    ELSE makePin(Head(rows), userLoc) \o mappedPins(Tail(rows), userLoc)

\* pins
pins ==
    LET q == toLowerCase(trim(g_search))
        Keep(p) == pinMatchesSearch(p, q) /\ matchesRadius(p, g_radiusKm)
    IN pinSort(SelectSeq(mappedPins(g_rows, g_userLoc), Keep))

\* farm_produce rows with coordinates, as the backend stores them
DiscoverRow(id, crop, farmer, location, place) ==
    WithId(Str(id),
           [Templates[1] EXCEPT !.crop_name = crop, !.farmer_name = farmer,
                                !.farmer_location = Txt(location),
                                !.location_lat = Deg(place[1]),
                                !.location_lng = Deg(place[2])])

DiscoverCatalog ==
    {DiscoverRow("g1", Txt(<<"M", "a", "i", "z", "e">>), Txt(<<"A", "m", "i", "n", "a">>), <<"K", "a", "m", "p", "a", "l", "a">>, Kampala),
     DiscoverRow("g2", Txt(<<"B", "e", "a", "n", "s">>), Txt(<<"J", "o", "h", "n">>), <<"E", "n", "t", "e", "b", "b", "e">>, <<600, 324600>>),
     DiscoverRow("g3", Null, Null, <<"M", "b", "a", "l", "e">>, <<10800, 341800>>),
     DiscoverRow("g4", Txt(<<"C", "o", "f", "f", "e", "e">>), Txt(<<"G", "r", "a", "c", "e">>), <<"G", "u", "l", "u">>, <<27746, 322990>>)}

DiscoverLists ==
    {l \in UNION {[1..n -> DiscoverCatalog] : n \in 0..MaxRows} :
        \A i, j \in 1..Len(l) : i # j => l[i].id # l[j].id}

\* where the browser can locate the user; the values of the radius slider drawn (1..200);
\* the search texts drawn
UserPlaces == {Kampala, <<27746, 322990>>}
Radii == {1, 20, 34, 193, 194, 200}
DiscoverSearchTexts == {<<>>, <<" ", "B", "E", "A", "N", "S", " ">>, <<"u", "n", "k", "n", "o", "w", "n">>}

\* getCurrentPosition: the success callback
DiscoverLocated(place) ==
    /\ page = "discover"
    /\ g_userLoc = <<>> /\ g_geoError = Null
    /\ g_userLoc' = place
    /\ UNCHANGED <<notExtra, page, contactVars, distVars, navVars, g_rows, g_loading, g_active,
                   g_flights, g_issued, g_lastAnswer, g_geoError, g_radiusKm, g_search>>

\* geolocation is not supported, or getCurrentPosition calls the error callback
DiscoverNotLocated(supported) ==
    /\ page = "discover"
    /\ g_userLoc = <<>> /\ g_geoError = Null
    /\ g_geoError' = IF supported THEN Str("Unable to get location. Using default view.")
                     ELSE Str("Location services not supported")
    /\ UNCHANGED <<notExtra, page, contactVars, distVars, navVars, g_rows, g_loading, g_active,
                   g_flights, g_issued, g_lastAnswer, g_userLoc, g_radiusKm, g_search>>

\* onChange of the radius slider, and its Reset button
DiscoverSetRadius(r) ==
    /\ page = "discover"
    /\ g_radiusKm' = r
    /\ UNCHANGED <<notExtra, page, contactVars, distVars, navVars, g_rows, g_loading, g_active,
                   g_flights, g_issued, g_lastAnswer, g_userLoc, g_geoError, g_search>>

\* onChange of the search box
DiscoverSetSearch(text) ==
    /\ page = "discover"
    /\ g_search' = text
    /\ UNCHANGED <<notExtra, page, contactVars, distVars, navVars, g_rows, g_loading, g_active,
                   g_flights, g_issued, g_lastAnswer, g_userLoc, g_geoError, g_radiusKm>>

\* the page once the initial fetch has answered with rows
InitDiscoverFilter ==
    /\ page = "discover"
    /\ BackendInit /\ db = [id \in Ids |-> 0] /\ ordered
    /\ PagesIdle /\ NavbarIdle /\ ContactIdle /\ DistanceIdle
    /\ g_rows \in DiscoverLists
    /\ g_loading = FALSE
    /\ g_active = TRUE
    /\ g_flights = [n \in {} |-> Null]
    /\ g_issued = 1
    /\ g_lastAnswer = <<"data", g_rows>>
    /\ g_userLoc = <<>>
    /\ g_geoError = Null
    /\ g_radiusKm = DefaultRadiusKm
    /\ g_search = <<>>

NextDiscoverFilter ==
    \/ \E place \in UserPlaces : DiscoverLocated(place)
    \/ \E supported \in BOOLEAN : DiscoverNotLocated(supported)
    \/ \E r \in Radii \cup {DefaultRadiusKm} : DiscoverSetRadius(r)
    \/ \E text \in DiscoverSearchTexts : DiscoverSetSearch(text)

SpecDiscoverFilter == InitDiscoverFilter /\ [][NextDiscoverFilter]_vars

----------------------------------------------------------------------------
(* Navbar (components/Navbar): the auth effect and fetchUserProfile *)

NavEmails == {"amina@farm.ug", "okello@farm.ug"}

\* the accounts_user row of an email as setUser keeps it
NavProfile(email) ==
    [id |-> email, email |-> Str(email), first_name |-> Str("A"), last_name |-> Str("B"),
     role |-> Str("farmer"), phone_number |-> Null]

\* what .single() on accounts_user answers: the row, an error, or neither
LookupOutcomes == {"row", "error", "empty"}

\* fetchUserProfile(email) up to its await
StartLookup(email, origin) ==
    n_lookups' = Append(n_lookups, [email |-> email, origin |-> origin, run |-> n_run])

\* checkUser() after await supabase.auth.getSession(), for the effect run that called it
NavGetSessionDone(run) ==
    /\ page = "navbar"
    /\ run \in n_checks
    /\ n_checks' = n_checks \ {run}
    /\ IF run # n_run
       THEN UNCHANGED <<n_user, n_loading, n_lookups>>
       ELSE IF ~Falsy(n_session)
       THEN /\ StartLookup(n_session[2], "check")
            /\ UNCHANGED <<n_user, n_loading>>
       ELSE /\ n_user' = <<>>
            /\ n_loading' = FALSE
            /\ UNCHANGED n_lookups
    /\ UNCHANGED <<notExtra, page, contactVars, distVars, discVars, n_showDropdown, n_run,
                   n_session, n_reported, n_events>>

\* the onAuthStateChange callback of the live effect run, called with the new session
NavAuthEvent(session) ==
    /\ page = "navbar"
    /\ n_events < MaxAuthEvents
    /\ n_events' = n_events + 1
    /\ n_session' = session
    /\ n_reported' = <<session>>
    /\ IF ~Falsy(session)
       THEN /\ StartLookup(session[2], "event")
            /\ UNCHANGED <<n_user, n_showDropdown>>
       ELSE /\ n_user' = <<>>
            /\ n_showDropdown' = FALSE
            /\ UNCHANGED n_lookups
    /\ UNCHANGED <<notExtra, page, contactVars, distVars, discVars, n_loading, n_run,
                   n_checks>>

\* fetchUserProfile after its await, and the finally block of checkUser when checkUser
\* awaited it
NavLookupDone(i, outcome) ==
    /\ page = "navbar"
    /\ i \in 1..Len(n_lookups)
    /\ n_lookups' = RemoveAt(n_lookups, i)
    /\ n_user' = IF outcome = "row" THEN <<NavProfile(n_lookups[i].email)>> ELSE <<>>
    /\ n_loading' = IF n_lookups[i].origin = "check" /\ n_lookups[i].run = n_run
                    THEN FALSE ELSE n_loading
    /\ UNCHANGED <<notExtra, page, contactVars, distVars, discVars, n_showDropdown, n_run,
                   n_checks, n_session, n_reported, n_events>>

\* isMobileMenuOpen changes: the effect's cleanup (alive = false, unsubscribe) and its next
\* run (checkUser(), a new listener)
NavToggleMenu ==
    /\ page = "navbar"
    /\ n_run < MaxEffectRuns
    /\ n_run' = n_run + 1
    /\ n_checks' = n_checks \cup {n_run + 1}
    /\ UNCHANGED <<notExtra, page, contactVars, distVars, discVars, n_user, n_loading,
                   n_showDropdown, n_lookups, n_session, n_reported, n_events>>

\* the account button, rendered when loading is false and user is set:
\* setShowDropdown((s) => !s)
NavToggleDropdown ==
    /\ page = "navbar"
    /\ ~n_loading
    /\ n_user # <<>>
    /\ n_showDropdown' = ~n_showDropdown
    /\ UNCHANGED <<notExtra, page, contactVars, distVars, discVars, n_user, n_loading,
                   n_run, n_checks, n_lookups, n_session, n_reported, n_events>>

InitNavbar ==
    /\ page = "navbar"
    /\ BackendInit /\ db = [id \in Ids |-> 0] /\ ordered
    /\ PagesIdle /\ ContactIdle /\ DistanceIdle /\ DiscoverIdle
    /\ n_user = <<>>
    /\ n_loading = TRUE
    /\ n_showDropdown = FALSE
    /\ n_run = 1
    /\ n_checks = {1}
    /\ n_lookups = <<>>
    /\ n_session \in {Null} \cup {Str(e) : e \in NavEmails}
    /\ n_reported = <<>>
    /\ n_events = 0

NextNavbar ==
    \/ \E run \in 1..MaxEffectRuns : NavGetSessionDone(run)
    \/ \E session \in {Null} \cup {Str(e) : e \in NavEmails} : NavAuthEvent(session)
    \/ \E i \in 1..(MaxAuthEvents + MaxEffectRuns), outcome \in LookupOutcomes :
          NavLookupDone(i, outcome)
    \/ NavToggleMenu
    \/ NavToggleDropdown

SpecNavbar == InitNavbar /\ [][NextNavbar]_vars

----------------------------------------------------------------------------
(* Properties of the product detail page *)

\* C6: when the route id changes while a fetch is in flight, the superseded
\* response is discarded: once all fetches have completed, the displayed error or
\* the displayed product belongs to the current route id.
C6_StaleFetchDiscarded ==
    (page = "detail" /\ d_fetches = {}) =>
        IF d_error # Null
        THEN d_errorFor = d_id
        ELSE d_product # <<>> => d_product[1].id = Str(d_id)

----------------------------------------------------------------------------
(* Properties of the Products page *)

\* the page has loaded its rows and shows 'Live Updates'; no step of the page is
\* pending
ProductsSettled ==
    /\ page = "products"
    /\ p_active
    /\ p_fetch = "done"
    /\ ~p_loading

\* C5: a listing inserted, updated, made unavailable or deleted at the backend after
\* the initial fetch is eventually reflected in the page's product list: once the
\* backend has stopped changing the list shows the available listings.
C5_LiveUpdatesReflected ==
    ProductsSettled => ProductIds(p_products) = {Str(id) : id \in AvailableIds}

----------------------------------------------------------------------------
(* Properties of the Home page *)

\* the initial fetch response and every delivered event have been applied, the
\* feed delivered in commit order and every event carried its row id
HomeSettled ==
    /\ page = "home"
    /\ h_alive
    /\ ordered
    /\ ~idless
    /\ h_load = "done"
    /\ h_err = Null
    /\ feed = <<>>

\* C1: with an ordered, lossless feed, once the fetch response and all delivered
\* events are applied the ids of the local list are the ids of the available
\* listings of the backend, whatever the interleaving of response and events.
C1_EventuallyConsistent ==
    HomeSettled => ProductIds(h_products) = {Str(id) : id \in AvailableIds}

\* C2: every row of the local product list has is_available = true.
C2_OnlyAvailableRows ==
    \A i \in 1..Len(h_products) : h_products[i].is_available = Bool(TRUE)

\* an update to unavailable removed a visible row
C2_Witness ==
    /\ h_ev.eventType = "UPDATE"
    /\ h_ev.new.is_available = Bool(FALSE)
    /\ h_ev.new.id \in ProductIds(h_prev)
    /\ h_ev.new.id \notin ProductIds(h_products)

\* the positions of prev whose row has another id than x, and the n-th of them
KeptPositions(prev, x) == {j \in 1..Len(prev) : prev[j].id # x}
NthKept(prev, x, n) ==
    CHOOSE j \in KeptPositions(prev, x) :
        Cardinality({k \in KeptPositions(prev, x) : k < j}) = n - 1

\* C3: a DELETE event with old id X leaves exactly the previous list without the
\* row of id X, the other rows unchanged and in the same order; a DELETE event
\* that carries no id changes nothing.
C3_DeleteFrame ==
    h_ev.eventType = "DELETE" =>
        IF h_ev.old_id = Null
        THEN h_products = h_prev
        ELSE /\ Len(h_products) = Cardinality(KeptPositions(h_prev, h_ev.old_id))
             /\ \A n \in 1..Len(h_products) :
                    h_products[n] = h_prev[NthKept(h_prev, h_ev.old_id, n)]

\* a DELETE removed one row of a list of two
C3_Witness ==
    /\ h_ev.eventType = "DELETE"
    /\ h_ev.old_id # Null
    /\ Len(h_prev) = 2
    /\ h_ev.old_id = h_prev[1].id
    /\ h_products = <<h_prev[2]>>

IsUpsertOfAvailable(e) ==
    e.eventType \in {"INSERT", "UPDATE"} /\ e.new.is_available = Bool(TRUE)

\* C4: the list holds at most one row per id, and that row is decided by the event
\* applied last for the id: the normalized record of an insert/update of an
\* available listing (replacing the row in place, or prepended when the id was
\* absent), no row after a delete or an update to unavailable; commit numbers are
\* not compared.
C4_LastAppliedWins ==
    /\ \A i, j \in 1..Len(h_products) : h_products[i].id = h_products[j].id => i = j
    /\ \A id \in Ids :
          h_last[id] # NoEvent =>
             IF IsUpsertOfAvailable(h_last[id])
             THEN \E i \in 1..Len(h_products) : h_products[i] = Normalize(h_last[id].new)
             ELSE Str(id) \notin ProductIds(h_products)
    /\ IsUpsertOfAvailable(h_ev) =>
          IF h_ev.new.id \in ProductIds(h_prev)
          THEN /\ Len(h_products) = Len(h_prev)
               /\ \A i \in 1..Len(h_prev) :
                     h_products[i] = IF h_prev[i].id = h_ev.new.id
                                     THEN Normalize(h_ev.new) ELSE h_prev[i]
          ELSE h_products = <<Normalize(h_ev.new)>> \o h_prev

\* an older event applied after a newer one for the same id decides the row
C4_Witness ==
    \E id \in Ids :
        /\ h_last[id] # NoEvent
        /\ h_last[id].seq < h_newest[id]
        /\ IsUpsertOfAvailable(h_last[id])
        /\ \E i \in 1..Len(h_products) : h_products[i] = Normalize(h_last[id].new)

----------------------------------------------------------------------------
(* Properties of the login page *)

\* the calls of a submission that reaches the redirect, in their order
SignInOrder ==
    <<"signInWithPassword", "getSession", "fetchUserRoleByEmail", "router.replace",
      "router.refresh">>

IsPrefix(s, t) == Len(s) <= Len(t) /\ SubSeq(t, 1, Len(s)) = s

LoginRedirected == l_redirect # ""

\* what C7 says of every finished submission but its failing cases
SignInRedirectRule ==
    /\ IsPrefix(l_calls, SignInOrder)
    /\ l_pc = "done" =>
          /\ LoginRedirected <=> (l_signIn = "ok" /\ l_session = "email")
          /\ LoginRedirected => l_calls = SignInOrder /\ l_redirect = "/products"
          /\ ~l_isLoading

\* C7 as stated: a sign-in submission ends in a redirect exactly when the credential
\* call returned no error and the session read afterwards carries a user email; the
\* calls run in the order credential call, session read, role lookup, redirect; the
\* target is /products for every role and for a failed role lookup; every submission
\* that does not redirect has set a submit error; isLoading is false once it finished.
C7_SubmitErrorInEveryFailingCase ==
    /\ SignInRedirectRule
    /\ (l_pc = "done" /\ ~LoginRedirected) => ~Falsy(l_errors.submit)

\* C7, amended: as above, but a submission that fails validation makes no call and
\* sets field errors only, without a submit error; every submission that passed
\* validation and does not redirect has set a submit error.
C7_SignInRedirect ==
    /\ SignInRedirectRule
    /\ (l_pc = "done" /\ ~LoginRedirected) =>
          IF l_calls = <<>>
          THEN /\ Falsy(l_errors.submit)
               /\ ~Falsy(l_errors.email) \/ ~Falsy(l_errors.password)
               /\ l_signIn = "uncalled"
          ELSE ~Falsy(l_errors.submit)

\* a finished submission that was redirected although the role lookup gave no role
C7_Witness ==
    /\ page = "login"
    /\ l_pc = "done"
    /\ l_redirect = "/products"
    /\ l_role = <<Null>>
    /\ l_calls = SignInOrder

\* the patterns of the sign-in error translation in their priority order, each with
\* its message
SignInPatterns ==
    <<[needles |-> {N_invalid_login_credentials}, message |-> M_credentials],
      [needles |-> {N_email_not_confirmed}, message |-> M_confirm],
      [needles |-> {N_invalid_email}, message |-> M_invalid_email],
      [needles |-> {N_rate_limit, N_too_many}, message |-> M_throttled]>>

MatchesPattern(raw, k) ==
    \E n \in SignInPatterns[k].needles : includes(toLowerCase(raw), n)

FirstMatchMessage(raw) ==
    LET hits == {k \in 1..Len(SignInPatterns) : MatchesPattern(raw, k)} IN
    IF hits = {} THEN M_login_failed
    ELSE SignInPatterns[CHOOSE k \in hits : \A j \in hits : k <= j].message

\* C10: for every raw error text the sign-in call returned, the submit message is one
\* of the five fixed strings, the one of the first pattern in the priority order that
\* the text contains (case-insensitively) and the generic one when it contains none;
\* the raw text itself is not the submit message.
C10_FriendlyAuthError ==
    (page = "login" /\ l_signIn = "error") =>
        /\ l_errors.submit = FirstMatchMessage(l_raw)
        /\ l_errors.submit \in {M_credentials, M_confirm, M_invalid_email, M_throttled,
                                M_login_failed}
        /\ l_errors.submit # Txt(l_raw)

\* an error text that contains two patterns got the message of the earlier one
C10_Witness ==
    /\ page = "login"
    /\ l_signIn = "error"
    /\ MatchesPattern(l_raw, 3)
    /\ MatchesPattern(l_raw, 4)
    /\ l_errors.submit = M_invalid_email

----------------------------------------------------------------------------
(* Properties of the sign-up page *)

MentionsRegistered(message) ==
    /\ message # Null
    /\ \/ includes(toLowerCase(message[2]), N_already)
       \/ includes(toLowerCase(message[2]), N_registered)

\* C8: whenever the sign-up call returned an error whose text contains 'already' or
\* 'registered' in any letter case, the submit error is exactly "An account with this
\* email already exists.", nothing was navigated to, no success message is set and
\* isLoading is false.
C8_AlreadyRegistered ==
    (page = "signup" /\ s_result = "error" /\ MentionsRegistered(s_message)) =>
        /\ s_errors.submit = Str("An account with this email already exists.")
        /\ s_pushed = <<>>
        /\ s_successMsg = Str("")
        /\ ~s_isLoading

\* the sign-up call returned an error that names the registration in capitals only
C8_Witness ==
    /\ page = "signup"
    /\ s_result = "error"
    /\ s_message = Txt(<<"A", "L", "R", "E", "A", "D", "Y">>)
    /\ s_errors.submit = Str("An account with this email already exists.")

\* C9: after a sign-up call that returned no error exactly one navigation was made:
\* to /check-email, with a success message set, when the response has no session, and
\* otherwise to /farmer/dashboard for a farmer, /buyer/dashboard for a buyer and
\* /dashboard for any other role.
C9_OneNavigation ==
    (page = "signup" /\ s_result \in {"nosession", "session"}) =>
        /\ Len(s_pushed) = 1
        /\ s_result = "nosession" =>
              s_pushed[1] = "/check-email" /\ ~Falsy(s_successMsg)
        /\ s_result = "session" =>
              s_pushed[1] = CASE s_formData.role = "farmer" -> "/farmer/dashboard"
                              [] s_formData.role = "buyer" -> "/buyer/dashboard"
                              [] OTHER -> "/dashboard"

\* a buyer signed up with a session and was sent to the buyer dashboard
C9_Witness ==
    /\ page = "signup"
    /\ s_result = "session"
    /\ s_formData.role = "buyer"
    /\ s_pushed = <<"/buyer/dashboard">>

\* the sign-up call ended with an error text: returned, or thrown
SignUpFailedWithText ==
    /\ page = "signup"
    /\ s_result \in {"error", "threw"}
    /\ s_message # Null

\* C11: on sign-up every auth-service error is shown as one of the fixed messages: a
\* text that contains no known substring gives the generic registration-failed
\* message, a text that contains 'rate limit' (and no word of the duplicate account)
\* gives the throttling message, and the raw text is not what is shown.
C11_SignUpErrorsTranslated ==
    SignUpFailedWithText =>
        /\ s_errors.submit \in {M_account_exists, M_throttled, M_registration_failed}
        /\ s_errors.submit # s_message
        /\ (~MentionsRegistered(s_message) /\ s_result = "error") =>
              s_errors.submit =
                 IF includes(toLowerCase(s_message[2]), N_rate_limit)
                 THEN M_throttled
                 ELSE M_registration_failed

----------------------------------------------------------------------------
(* Properties of the profile page *)

\* the texts drawn for quantity and price that denote a finite number above zero
PositiveNumberTexts == {<<"5", "0">>, <<" ", "1", "2", ".", "5", " ">>, <<"1", "e", "3">>, <<"1", "0", "0", "0">>, <<".", "5">>,
                        <<"0", ".", "0", "0", "4">>}

NonBlank(text) == \E i \in 1..Len(text) : text[i] # " "

\* the conditions C12 names for a save
MaySave(authUserId, user, form) ==
    /\ authUserId # Null
    /\ user # <<>>
    /\ user[1].role # Null
    /\ toLowerCase(user[1].role[2]) = T_farmer
    /\ NonBlank(form.cropName)
    /\ NonBlank(form.farmerLocation)
    /\ form.quantity \in PositiveNumberTexts
    /\ form.pricePerUnit \in PositiveNumberTexts
    /\ form.availableFrom # Str("")

IsStorageOrInsert(call) == call.op \in {"upload", "insert"}

\* C12: a saveProduct() call issues an image upload or an insert into the listing table
\* only if the user is authenticated with role farmer, the trimmed crop name and the
\* trimmed location are non-empty, quantity and price are finite numbers above zero and
\* the available-from date is non-empty; otherwise it sets a modal error, makes no
\* call, and savingProduct is false afterwards.
C12_SaveGuard ==
    [][(f_saves' = f_saves + 1) =>
          IF MaySave(f_authUserId, f_user, f_form)
          THEN /\ Len(f_calls') = Len(f_calls) + 1
               /\ IsStorageOrInsert(f_calls'[Len(f_calls')])
          ELSE /\ f_calls' = f_calls
               /\ ~Falsy(f_modalError')
               /\ ~f_savingProduct'
               /\ f_pc' = "idle"]_vars

\* a farmer's save with quantity Infinity was rejected without a call
C12_Witness ==
    /\ page = "profile"
    /\ f_result = "rejected"
    /\ f_calls = <<>>
    /\ f_authUserId # Null
    /\ f_user = <<FarmerUser>>
    /\ f_formAtSave # <<>>
    /\ f_formAtSave[1].quantity = <<"I", "n", "f", "i", "n", "i", "t", "y">>
    /\ f_modalError = Str("Quantity must be a valid number greater than 0.")

\* the form of the saves so far carried an image file
SavedWithImage == f_formAtSave # <<>> /\ f_formAtSave[1].imageFile # <<>>

\* C13: with an image file the insert is issued only after the upload succeeded, and the
\* inserted photo is the public URL of that upload, whose path lies under the farmer's
\* own id; after a failed upload or URL generation no insert is issued; without an
\* image file no upload is issued and the inserted photo is null.
C13_UploadBeforeInsert ==
    /\ \A i \in 1..Len(f_calls) :
          /\ f_calls[i].op = "upload" => SavedWithImage
          /\ f_calls[i].op = "insert" =>
                IF SavedWithImage
                THEN /\ i > 1
                     /\ f_calls[i - 1].op = "upload"
                     /\ f_calls[i].payload.photo =
                           <<"publicUrl", "produce-photos", f_calls[i - 1].path>>
                     /\ f_calls[i - 1].path.dir = f_authUserId
                     /\ f_calls[i - 1].path.dir = f_calls[i].payload.farmer_id
                ELSE f_calls[i].payload.photo = Null
    /\ (f_pc = "upload" \/ f_result \in {"uploadFailed", "urlFailed"}) =>
          f_calls[Len(f_calls)].op = "upload"

\* an insert that followed a successful upload, after an earlier upload had failed
C13_Witness ==
    /\ page = "profile"
    /\ Len(f_calls) = 3
    /\ f_calls[1].op = "upload"
    /\ f_calls[2].op = "upload"
    /\ f_calls[3].op = "insert"
    /\ f_calls[3].payload.photo = PublicUrl(f_calls[2].path)

SaveFailed == f_result \in {"insertError", "threw", "uploadFailed", "urlFailed"}

\* what the page shows when a save has just failed
SaveErrorShown ==
        /\ f_raised.kind = "insert" =>
              IF \/ f_raised.error.code = Str("42501")
                 \/ includes(toLowerCase(f_raised.error.message), N_row_level_security)
              THEN f_modalError = M_permission_denied
              ELSE f_modalError = Txt(<<"D", "a", "t", "a", "b", "a", "s", "e", " ", "E", "r", "r", "o", "r", ":", " ">> \o f_raised.error.message)
        /\ f_raised.kind \in {"thrown", "upload", "url"} =>
              f_modalError = Txt(<<"U", "n", "e", "x", "p", "e", "c", "t", "e", "d", " ", "E", "r", "r", "o", "r", ":", " ">> \o
                 (IF Falsy(f_raised.message) THEN <<"F", "a", "i", "l", "e", "d", " ", "t", "o", " ", "s", "a", "v", "e", " ", "p", "r", "o", "d", "u", "c", "t">>
                  ELSE f_raised.message[2]))
        /\ f_raised.kind # "none"
        /\ \A i \in 1..Len(f_calls) : f_calls[i].op # "loadAll"
        /\ ~f_savingProduct
        /\ f_success = Null
        /\ f_pc = "idle"

----------------------------------------------------------------------------
(* Properties of the marketplace page *)

\* listing l is the one offered: the one chosen in the selector while it is in the
\* list, and the first of the list otherwise
IsOfferedListing(l) ==
    IF \E i \in 1..Len(m_listings) : Str(m_listings[i].id) = m_selectedListingId
    THEN Str(l.id) = m_selectedListingId
    ELSE l = m_listings[1]

\* C15: every Send Offer click of a signed-in user with at least one listing issues
\* exactly one insert into the offers table, with status 'sent' and the quantity and
\* price of the selected listing as held in the page state at the click, whatever was
\* offered before; a click without signed-in user or without listing issues none.
C15_OneInsertPerClick ==
    [][(m_clicks' = m_clicks + 1) =>
          IF m_authId # Null /\ m_listings # <<>>
          THEN /\ Len(m_inserts') = Len(m_inserts) + 1
               /\ SubSeq(m_inserts', 1, Len(m_inserts)) = m_inserts
               /\ \E i \in 1..Len(m_listings) :
                     LET l == m_listings[i]
                         offer == m_inserts'[Len(m_inserts')]
                     IN /\ IsOfferedListing(l)
                        /\ offer.status = "sent"
                        /\ offer.listing_id = l.id
                        /\ offer.offered_quantity = l.quantity
                        /\ offer.offered_price_per_unit = l.price_per_unit
                        /\ offer.farmer_id = m_authId
          ELSE m_inserts' = m_inserts]_vars

\* three clicks for the same demand and the listing chosen in the selector issued three
\* equal inserts
C15_Witness ==
    /\ page = "market"
    /\ m_clicks = 3
    /\ Len(m_inserts) = 3
    /\ m_inserts[1] = m_inserts[2]
    /\ m_inserts[2] = m_inserts[3]
    /\ m_inserts[1].listing_id = "l2"
    /\ Len(m_listings) = 2
    /\ m_listings[1].id = "l1"

----------------------------------------------------------------------------
(* Properties of the Home page filters *)

\* needle occurs in hay as a run of consecutive characters
IsSubstring(needle, hay) ==
    \E i \in 0..(Len(hay) - Len(needle)) : SubSeq(hay, i + 1, i + Len(needle)) = needle

\* the text of a field that may be missing
FieldText(v) == IF v = Null THEN <<>> ELSE v[2]

\* crop name, variety, farmer location and farmer name, lower-cased and joined by spaces
LowerConcat(p) ==
    toLowerCase(FieldText(p.crop_name)) \o <<" ">> \o toLowerCase(FieldText(p.variety))
        \o <<" ">> \o toLowerCase(FieldText(p.farmer_location)) \o <<" ">>
        \o toLowerCase(FieldText(p.farmer_name))

\* the ids of the listings held and of the listings shown
HeldIds == {h_products[i].id : i \in 1..Len(h_products)}
ShownIds == {filtered[i].id : i \in 1..Len(filtered)}
Held(id) == h_products[CHOOSE i \in 1..Len(h_products) : h_products[i].id = id]

\* no other filter of the Home page is set
OnlySearch == h_quality = T_all /\ h_maxPrice = Str("")

OnlyQuality == trim(h_query) = <<>> /\ h_maxPrice = Str("")

\* C17: with the quality filter set to top, standard or fair the listings shown are exactly
\* those whose quality, lower-cased, equals the filter, whether the row came from the
\* initial fetch or from a realtime event; with 'all' no listing is excluded by quality
C17_QualityNormalized ==
    OnlyQuality =>
        IF h_quality = T_all THEN ShownIds = HeldIds
        ELSE ShownIds = {id \in HeldIds :
                            toLowerCase(FieldText(Held(id).quality)) = h_quality}

\* only the max price filter of the Home page is set, if any
OnlyMaxPrice == trim(h_query) = <<>> /\ h_quality = T_all

\* the price of a listing in thousandths, a missing or non-finite price counted as 0
PriceOrZero(p) ==
    IF p.price_per_unit[1] \in {"num", "dec"} THEN Milli(p.price_per_unit) ELSE 0

\* x <= m for a price x in thousandths and the number m
AtMost(x, m) == IF m[1] = "inf" THEN m[2] = 1 ELSE x <= Milli(m)

\* C19: with a max price m entered the listings shown are exactly those whose price, a
\* missing or non-finite price counted as 0, is less than or equal to m; with the field
\* empty no listing is excluded by price
C19_MaxPriceInclusive ==
    OnlyMaxPrice =>
        IF h_maxPrice = Str("") THEN ShownIds = HeldIds
        ELSE ShownIds = {id \in HeldIds : AtMost(PriceOrZero(Held(id)), h_maxPrice)}

\* the listing timestamp, a missing one counted as older than every timestamp (which are
\* positive)
StampOrOldest(p) == IF p.listed_at = Null THEN 0 ELSE p.listed_at[2]

\* the position of the listing with this id in rows
PositionIn(rows, id) == CHOOSE i \in 1..Len(rows) : rows[i].id = id

\* C20: under sort key price_low the list shown is in ascending order of price and under
\* newest in descending order of listing timestamp (a missing timestamp the oldest); in
\* both cases it is a permutation of the filtered rows, and listings with equal keys keep
\* the order they had in the filtered rows
C20_StableSort ==
    LET in == FilteredRows(h_products, h_query, h_quality, h_maxPrice)
        out == filtered
        Key(p) == IF h_sort = "price_low" THEN PriceOrZero(p) ELSE -StampOrOldest(p)
    IN h_sort \in {"price_low", "newest"} =>
          /\ Len(out) = Len(in)
          /\ {out[i] : i \in 1..Len(out)} = {in[i] : i \in 1..Len(in)}
          /\ \A i, j \in 1..Len(out) :
                i < j =>
                   /\ Key(out[i]) <= Key(out[j])
                   /\ Key(out[i]) = Key(out[j]) =>
                         PositionIn(in, out[i].id) < PositionIn(in, out[j].id)

\* sorted by price_low, Beans and Maize (both 5000) follow Coffee (1000) and keep the
\* order Beans, Maize of the list held
C20_Witness ==
    /\ h_sort = "price_low"
    /\ Len(h_products) = 3 /\ Len(filtered) = 3
    /\ h_products[1].id = Str("c4") /\ h_products[2].id = Str("c2")
    /\ h_products[3].id = Str("c1")
    /\ filtered[1].id = Str("c1") /\ filtered[2].id = Str("c4") /\ filtered[3].id = Str("c2")

----------------------------------------------------------------------------
(* Properties of the Products page filters *)

ProductsHeldIds == {p_products[i].id : i \in 1..Len(p_products)}
ProductsShownIds == {filteredProducts[i].id : i \in 1..Len(filteredProducts)}
ProductsHeld(id) == p_products[CHOOSE i \in 1..Len(p_products) : p_products[i].id = id]

\* the lower-cased crop category and crop name of the listing, empty when missing
LowerCategory(id) == toLowerCase(FieldText(ProductsHeld(id).crop_category))
LowerCrop(id) == toLowerCase(FieldText(ProductsHeld(id).crop_name))

\* C18 as stated: with no search text and a category c other than 'all' selected the
\* listings shown are exactly those whose lower-cased crop category equals c, whatever the
\* crop name; with 'all' selected no listing is excluded
C18_CategoryExactMatch ==
    trim(p_search) = <<>> =>
        IF p_selectedCategory = T_all THEN ProductsShownIds = ProductsHeldIds
        ELSE ProductsShownIds =
                {id \in ProductsHeldIds : LowerCategory(id) = p_selectedCategory}

\* C18: with no search text and a category c other than 'all' selected the listings shown
\* are exactly those whose lower-cased crop category equals c or whose lower-cased crop
\* name contains c; with 'all' selected no listing is excluded; with a search text the
\* listings shown are among those
C18_CategoryOrCropName ==
    LET Selected ==
            IF p_selectedCategory = T_all THEN ProductsHeldIds
            ELSE {id \in ProductsHeldIds :
                     \/ LowerCategory(id) = p_selectedCategory
                     \/ IsSubstring(p_selectedCategory, LowerCrop(id))}
    IN /\ ProductsShownIds \subseteq Selected
       /\ trim(p_search) = <<>> => ProductsShownIds = Selected

\* with 'grain' selected the list shows Maize (category 'Grain') and Grain amaranth
\* (category vegetable), and leaves Beans out
C18_Witness ==
    /\ p_selectedCategory = T_grain
    /\ trim(p_search) = <<>>
    /\ ProductsShownIds = {Str("p1"), Str("p2")}
    /\ Str("p3") \in ProductsHeldIds

----------------------------------------------------------------------------
(* Properties of the contact links *)

\* the digits of the stored phone
PhoneDigits == KeepChars(TextOrEmpty(w_phone), Digits)

\* the rule: 256 for the leading zero of exactly ten digits, the digits as they are otherwise
ExpectedDigits ==
    IF Len(PhoneDigits) = 10 /\ Head(PhoneDigits) = "0"
    THEN <<"2", "5", "6">> \o SubSeq(PhoneDigits, 2, 10)
    ELSE PhoneDigits

OpenedBy(i, by) == w_opened[i].by = by

\* C22: the WhatsApp link of the Products page holds, after https://wa.me/, only digits:
\* 256 and the last nine digits when the digits of the phone are exactly ten and start
\* with 0, and the digits of the phone unchanged in every other case
C22_NormalizeWhatsapp ==
    \A i \in 1..Len(w_opened) :
        OpenedBy(i, "ProductsPage.handleMessage") =>
            /\ w_opened[i].url = T_wa_me \o ExpectedDigits
            /\ \A k \in (Len(T_wa_me) + 1)..Len(w_opened[i].url) :
                  w_opened[i].url[k] \in Digits

\* the Products page has opened https://wa.me/256712345678 for the phone " 0712 345-678 "
C22_Witness ==
    /\ w_phone = Txt(<<" ", "0", "7", "1", "2", " ", "3", "4", "5", "-", "6", "7", "8", " ">>)
    /\ \E i \in 1..Len(w_opened) :
          /\ OpenedBy(i, "ProductsPage.handleMessage")
          /\ w_opened[i].url = <<"h", "t", "t", "p", "s", ":", "/", "/", "w", "a", ".", "m", "e", "/", "2", "5", "6", "7", "1", "2", "3", "4", "5", "6", "7", "8">>

\* C23: for every stored phone the WhatsApp link of the detail page has the target of the
\* WhatsApp link of the Products page: the digits under the ten-digit rule
C23_SameWhatsappTarget ==
    \A i \in 1..Len(w_opened) :
        OpenedBy(i, "ProductDetailPage.handleMessageFarmer") =>
            /\ <<w_opened[i].url>> = ProductsMessageUrl(w_phone)
            /\ w_opened[i].url = T_wa_me \o ExpectedDigits

----------------------------------------------------------------------------
(* Properties of the distance functions *)

Measured(call) == call \in DOMAIN k_km

\* C25: haversineKm and calculateDistance return 0 for two identical coordinate pairs, and
\* each returns for the pairs A, B what it returns for B, A
C25_ZeroAndSymmetric ==
    /\ \A call \in DOMAIN k_km : k_from = k_to => k_km[call] = 0
    /\ (Measured("haversineKm") /\ Measured("haversineKm back")) =>
          k_km["haversineKm"] = k_km["haversineKm back"]
    /\ (Measured("calculateDistance") /\ Measured("calculateDistance back")) =>
          k_km["calculateDistance"] = k_km["calculateDistance back"]

\* both functions have measured Kampala to Gulu in both orders, more than 200 km each way
C25_Witness ==
    /\ k_from = Kampala /\ k_to = <<27746, 322990>>
    /\ DOMAIN k_km = DistanceCalls
    /\ \A call \in DistanceCalls : k_km[call] > 200000

----------------------------------------------------------------------------
(* Properties of the Discover page *)

\* a fetchProducts() call is in flight
DiscoverFetching == DOMAIN g_flights # {}

\* C24: while the page is mounted, loading is true in every state in which a listings
\* fetch is in flight, and false once none is
C24_LoadingWhileFetching == g_active => (g_loading <=> DiscoverFetching)

\* C26: once every fetch has completed, the rows held are the response to the fetch
\* issued last
C26_LatestFetchWins ==
    (g_active /\ ~DiscoverFetching /\ g_lastAnswer # <<>> /\ g_lastAnswer[1] = "data") =>
        g_rows = g_lastAnswer[2]

\* the ids of the listings held and of the pins shown on the Discover page
DiscoverHeldIds == {g_rows[i].id : i \in 1..Len(g_rows)}
DiscoverShownIds == {pins[i].id : i \in 1..Len(pins)}
DiscoverHeld(id) == g_rows[CHOOSE i \in 1..Len(g_rows) : g_rows[i].id = id]

\* the listing is available, has coordinates and matches the search text
DiscoverCandidate(id) ==
    LET r == DiscoverHeld(id)
        q == toLowerCase(trim(g_search))
        Text(v, default) == toLowerCase(IF v = Null \/ v[2] = <<>> THEN default ELSE v[2])
    IN /\ r.is_available = Bool(TRUE)
       /\ r.location_lat # Null /\ r.location_lng # Null
       /\ \/ IsSubstring(q, Text(r.crop_name, <<"P", "r", "o", "d", "u", "c", "e">>))
          \/ IsSubstring(q, Text(r.farmer_name, <<"U", "n", "k", "n", "o", "w", "n", " ", "F", "a", "r", "m", "e", "r">>))
          \/ IsSubstring(q, Text(r.farmer_location, <<"U", "g", "a", "n", "d", "a">>))
          \/ IsSubstring(q, Text(r.crop_category, <<"o", "t", "h", "e", "r">>))

\* the distance in metres from the user to the listing
DiscoverDistance(id) ==
    haversineKm(g_userLoc[1], g_userLoc[2], DegOf(DiscoverHeld(id).location_lat),
                DegOf(DiscoverHeld(id).location_lng))

----------------------------------------------------------------------------
(* Properties of the Add Product modal while a save is in flight *)

\* C27: while savingProduct is true the modal is not closed and its form is not reset,
\* except by the save itself when it completes successfully
C27_NoCloseWhileSaving ==
    [][(f_savingProduct /\ f_showAddModal /\ (~f_showAddModal' \/ f_form' # f_form))
          => f_result' = "saved"]_vars

\* C28: every record that saveProduct inserts has a quantity greater than zero and a
\* price greater than zero
C28_InsertedPositive ==
    \A i \in 1..Len(f_calls) :
        f_calls[i].op = "insert" =>
            /\ isFinite(f_calls[i].payload.quantity)
            /\ f_calls[i].payload.quantity[2] > 0
            /\ isFinite(f_calls[i].payload.price_per_unit)
            /\ f_calls[i].payload.price_per_unit[2] > 0

----------------------------------------------------------------------------
(* Properties of the marketplace listing selector under realtime refreshes *)

\* the id of the listing an offer would carry, <<>> when there is none
OfferedId(listings, selectedListingId) ==
    IF selectedListing(listings, selectedListingId) = <<>> THEN <<>>
    ELSE <<selectedListing(listings, selectedListingId)[1].id>>

\* listing id is among the listings
Listed(listings, id) == \E i \in 1..Len(listings) : listings[i].id = id

\* C30: a step without a new selection by the user, such as a realtime refresh of the
\* listings, does not change which listing is offered; stated for the steps after which
\* the listing offered so far is still among the listings
C30_RefreshKeepsOffered ==
    [][(/\ m_selectedListingId' = m_selectedListingId
        /\ OfferedId(m_listings, m_selectedListingId) # <<>>
        /\ Listed(m_listings', OfferedId(m_listings, m_selectedListingId)[1]))
          => OfferedId(m_listings', m_selectedListingId')
                = OfferedId(m_listings, m_selectedListingId)]_vars

----------------------------------------------------------------------------
(* Properties of the Navbar *)

\* C29: when the last auth event reported a signed-out session and no session check and
\* no profile lookup is in flight, the displayed user is null
C29_SignedOutShowsNoUser ==
    (page = "navbar" /\ n_reported = <<Null>> /\ n_checks = {} /\ n_lookups = <<>>)
        => n_user = <<>>

====
